---- MODULE Spec2Model ----
(***************************************************************************)
(* Model of the locale cache of src/src/shell/locale_client.py             *)
(* (LocaleClient) over an abstract Firestore locale store, with the record *)
(* parser of src/src/core/locale.py (locale_from_dict).                    *)
(*                                                                         *)
(* Time is counted in abstract clock units: one unit stands for the        *)
(* default TTL (DEFAULT_CACHE_TTL_SECONDS = 1 unit).                       *)
(***************************************************************************)
EXTENDS Integers, Sequences, FiniteSets, TLC

(* ------------------------------ bounds --------------------------------- *)

\* Largest value of the wall clock the model explores.
MaxClock == 2

(* ----------------------------- constants ------------------------------- *)

\* locale_client.py:28, scaled: the default TTL is one clock unit.
DEFAULT_CACHE_TTL_SECONDS == 1

\* A configured TTL larger than any value time.time() returns in the model
\* (cache_ttl_seconds is an unvalidated int of LocaleClientConfig).
HugeTtl == MaxClock + 1

\* LocaleClientConfig.cache_ttl_seconds: the values the model configures.
TtlValues == {DEFAULT_CACHE_TTL_SECONDS, HugeTtl}

\* The wall clock when the client is constructed: time.time() is seconds
\* since the epoch, far beyond the default TTL; the model starts it at the
\* default TTL.
ClockStart == DEFAULT_CACHE_TTL_SECONDS

Threads == {1, 2}

\* Document ids of the locales collection, in the order stream() yields them
\* (Firestore orders a collection scan by document id).
DocOrder == <<"la", "sf">>
DocIds == {DocOrder[i] : i \in 1..Len(DocOrder)}

\* A document id with no document behind it.
NoDoc == [absent |-> TRUE]

(* --------------------------- raw records ------------------------------- *)
\* A raw record is a map from field names to values (doc.to_dict()).  Names
\* are ranked 1, 2, ... in Python's string order; bounds is "box" for a map
\* holding the four corner fields and "str" for a value of the wrong type.

RawDoc(slug, name, so, act, feat) ==
  [slug |-> slug, name |-> name, bounds |-> "box", sort_order |-> so,
   is_active |-> act, is_featured |-> feat]

\* A record without its required "name" field.
NoNameDoc(slug) == [slug |-> slug, bounds |-> "box", sort_order |-> 0]
\* A record whose "bounds" field is a string instead of a map.
BadBoundsDoc(slug) == [slug |-> slug, name |-> 1, bounds |-> "str"]
\* A record without the optional fields.
BareDoc(slug, name) == [slug |-> slug, name |-> name, bounds |-> "box"]
\* to_dict() of a document with no fields.
EmptyDoc == [x \in {} |-> x]

Has(data, k) == k \in DOMAIN data

\* Python's None as the value of a timestamp field (Locale.created_at and
\* Locale.updated_at default to it); timestamps are clock values.
NoneStamp == -1

\* dict.get(k, default)
Get(data, k, default) == IF Has(data, k) THEN data[k] ELSE default

(* ------------------------- core/locale.py ------------------------------ *)

\* locale_from_dict raises KeyError (a required field is missing) or
\* TypeError (bounds is not subscriptable by a field name).
ParseRaises(data) ==
  \/ ~Has(data, "slug")
  \/ ~Has(data, "name")
  \/ ~Has(data, "bounds")
  \/ data["bounds"] # "box"

\* locale_from_dict: the Locale built from a raw record that parses.
locale_from_dict(data) ==
  [slug        |-> data["slug"],
   name        |-> data["name"],
   bounds      |-> data["bounds"],
   is_active   |-> Get(data, "is_active", TRUE),
   is_featured |-> Get(data, "is_featured", TRUE),
   sort_order  |-> Get(data, "sort_order", 0),
   created_at  |-> Get(data, "created_at", NoneStamp),
   updated_at  |-> Get(data, "updated_at", NoneStamp)]

(* ------------------------- dict operations ----------------------------- *)
\* A Python dict keyed by slug is a sequence of locales with distinct slugs,
\* in insertion order.

EmptyDict == << >>

DictKeys(d) == {d[i].slug : i \in 1..Len(d)}

\* d[loc.slug] = loc: an existing key keeps its position.
DictSet(d, loc) ==
  IF loc.slug \in DictKeys(d)
  THEN [i \in 1..Len(d) |-> IF d[i].slug = loc.slug THEN loc ELSE d[i]]
  ELSE Append(d, loc)

\* str.lower() on the slugs of the model.
FoldCase(slug) == IF slug = "LA" THEN "la" ELSE slug

\* DictGet with a lookup that ignores case.
DictGet_CaseFold(d, slug) ==
  {d[i] : i \in {j \in 1..Len(d) : d[j].slug = FoldCase(slug)}}

\* d.get(slug): the set holding the value, empty for None.
DictGet(d, slug) == {d[i] : i \in {j \in 1..Len(d) : d[j].slug = slug}}

\* LoadOne with a parse failure that drops what the loop has loaded so far.
LoadOne_BadClears(d, data) ==
  IF DOMAIN data = {} THEN d
  ELSE IF ParseRaises(data) THEN EmptyDict
  ELSE DictSet(d, locale_from_dict(data))

\* The body of the refresh loop for one streamed document (lines 112-118):
\* an empty record is ignored, a record that does not parse is skipped, a
\* parsed one is stored under its slug.
LoadOne(d, data) ==
  IF DOMAIN data = {} THEN d
  ELSE IF ParseRaises(data) THEN d
  ELSE DictSet(d, locale_from_dict(data))

\* What a refresh loop that runs to its end over docs leaves in a dict d.
RECURSIVE LoadAll(_, _)
LoadAll(d, docs) ==
  IF docs = << >> THEN d ELSE LoadAll(LoadOne(d, Head(docs)), Tail(docs))

(* ------------------------- sorting and views --------------------------- *)

\* The sort key (loc.sort_order, loc.name), compared as Python tuples.
KeyLess(a, b) ==
  \/ a.sort_order < b.sort_order
  \/ a.sort_order = b.sort_order /\ a.name < b.name

\* Insertion of x behind every element whose key is not greater (stable).
SortedInsert(s, x) ==
  LET k == Cardinality({i \in 1..Len(s) : ~KeyLess(x, s[i])})
  IN SubSeq(s, 1, k) \o <<x>> \o SubSeq(s, k + 1, Len(s))

\* A sort on sort_order alone.
RECURSIVE SortLocales_NoTieBreak(_)
SortLocales_NoTieBreak(s) ==
  IF s = << >> THEN << >>
  ELSE LET r == SortLocales_NoTieBreak(SubSeq(s, 1, Len(s) - 1))
           x == s[Len(s)]
           k == Cardinality({i \in 1..Len(r) : r[i].sort_order <= x.sort_order})
       IN SubSeq(r, 1, k) \o <<x>> \o SubSeq(r, k + 1, Len(r))

\* list.sort(key=lambda loc: (loc.sort_order, loc.name)): a stable sort.
RECURSIVE SortLocales(_)
SortLocales(s) ==
  IF s = << >> THEN << >>
  ELSE SortedInsert(SortLocales(SubSeq(s, 1, Len(s) - 1)), s[Len(s)])

IsActive(loc) == loc.is_active
IsFeatured(loc) == loc.is_featured

\* LocaleView with the featured filter nested inside the active filter.
LocaleView_NestedFilters(d, active_only, featured_only) ==
  LET act == IF active_only
             THEN IF featured_only
                  THEN SelectSeq(SelectSeq(d, IsActive), IsFeatured)
                  ELSE SelectSeq(d, IsActive)
             ELSE d
  IN SortLocales(act)

\* Lines 154-164 of get_all_locales: filter the cached values, then sort.
LocaleView(d, active_only, featured_only) ==
  LET all == d
      act == IF active_only THEN SelectSeq(all, IsActive) ELSE all
      fea == IF featured_only THEN SelectSeq(act, IsFeatured) ELSE act
  IN SortLocales(fea)

\* _is_cache_valid without its empty-cache test.
IsCacheValid_NoEmptyTest(c, ts, n, t) == n - ts < t

\* _is_cache_valid over the cache c, its timestamp ts, the clock n, the TTL.
IsCacheValid(c, ts, n, t) ==
  IF c = EmptyDict THEN FALSE ELSE n - ts < t

\* The timestamp invalidate_cache() writes.
InvalidatedTimestamp == 0

\* collection.stream(): the documents that exist, ordered by document id.
StreamDocs(st) ==
  LET ids == SelectSeq(DocOrder, LAMBDA id : ~Has(st[id], "absent"))
  IN [i \in 1..Len(ids) |-> st[ids[i]]]

\* doc_ref.get().exists
Exists(st, slug) == ~Has(st[slug], "absent")

\* doc_ref.update(fields): the stored record with the given fields replaced.
Merge(data, upd) ==
  [k \in DOMAIN data \cup DOMAIN upd |->
     IF k \in DOMAIN upd THEN upd[k] ELSE data[k]]

\* locale_to_firestore_dict: every field of the Locale, under its name.
locale_to_firestore_dict(loc) ==
  [slug |-> loc.slug, name |-> loc.name, bounds |-> loc.bounds,
   sort_order |-> loc.sort_order, is_active |-> loc.is_active,
   is_featured |-> loc.is_featured, created_at |-> loc.created_at,
   updated_at |-> loc.updated_at]

(* ------------------------- validation engine --------------------------- *)
\* Coordinates are whole degrees.  A finding is a ValidationError: a context
\* label, a severity and a message.

Finding(context, severity, message) ==
  [context |-> context, severity |-> severity, message |-> message]

\* validate_coordinates with open intervals: the boundary values are errors.
validate_coordinates_OpenInterval(lat, lng, context) ==
  (IF lat <= -90 \/ lat >= 90
   THEN <<Finding(context, "error", "Latitude out of range")>> ELSE << >>)
  \o (IF lng <= -180 \/ lng >= 180
      THEN <<Finding(context, "error", "Longitude out of range")>> ELSE << >>)

\* validate_coordinates(lat, lng, context): a critical error when the
\* latitude is not in [-90, 90], a second one when the longitude is not in
\* [-180, 180].
validate_coordinates(lat, lng, context) ==
  (IF lat < -90 \/ lat > 90
   THEN <<Finding(context, "error", "Latitude out of range")>> ELSE << >>)
  \o (IF lng < -180 \/ lng > 180
      THEN <<Finding(context, "error", "Longitude out of range")>> ELSE << >>)

\* BoundingBox(min_latitude, max_latitude, min_longitude, max_longitude).
BoundingBox(min_latitude, max_latitude, min_longitude, max_longitude) ==
  [min_latitude |-> min_latitude, max_latitude |-> max_latitude,
   min_longitude |-> min_longitude, max_longitude |-> max_longitude]

\* validate_bounds that stops at the first corner with an error.
validate_bounds_ShortCircuit(box, context) ==
  LET lo == validate_coordinates(box.min_latitude, box.min_longitude, context)
      hi == validate_coordinates(box.max_latitude, box.max_longitude, context)
  IN IF lo # << >> THEN lo
     ELSE IF hi # << >> THEN hi
     ELSE (IF box.min_latitude >= box.max_latitude
           THEN <<Finding(context, "error", "min_latitude >= max_latitude")>>
           ELSE << >>)
          \o (IF box.min_longitude >= box.max_longitude
              THEN <<Finding(context, "error", "min_longitude >= max_longitude")>>
              ELSE << >>)

\* validate_bounds(box, context): the coordinate check on both corner pairs,
\* then a critical error when min_latitude >= max_latitude and another when
\* min_longitude >= max_longitude; every error is collected.
validate_bounds(box, context) ==
  validate_coordinates(box.min_latitude, box.min_longitude, context)
  \o validate_coordinates(box.max_latitude, box.max_longitude, context)
  \o (IF box.min_latitude >= box.max_latitude
      THEN <<Finding(context, "error", "min_latitude >= max_latitude")>>
      ELSE << >>)
  \o (IF box.min_longitude >= box.max_longitude
      THEN <<Finding(context, "error", "min_longitude >= max_longitude")>>
      ELSE << >>)

\* A name is a sequence of one-character strings; Str is the string it
\* spells.
RECURSIVE Str(_)
Str(name) == IF name = << >> THEN "" ELSE Head(name) \o Str(Tail(name))

Min(x, y) == IF x <= y THEN x ELSE y

\* The edit distance of two names: the least number of insertions, deletions
\* and substitutions of one character that turns one into the other.
RECURSIVE EditDistance(_, _)
EditDistance(a, b) ==
  IF a = << >> THEN Len(b)
  ELSE IF b = << >> THEN Len(a)
  ELSE Min(Min(EditDistance(Tail(a), b) + 1, EditDistance(a, Tail(b)) + 1),
           EditDistance(Tail(a), Tail(b))
             + (IF Head(a) = Head(b) THEN 0 ELSE 1))

\* The acceptance threshold of the fuzzy match, as a distance: a candidate is
\* suggested when it is within one edit of the referenced name.
SuggestDistance == 1

\* PointOfInterest(name, latitude, longitude, radius).
PointOfInterest(name, latitude, longitude, radius) ==
  [name |-> name, latitude |-> latitude, longitude |-> longitude,
   radius |-> radius]

\* The names of a list of points of interest, in its order.
PoiNames(pois) == [i \in 1..Len(pois) |-> pois[i].name]

\* BestMatch with ties resolved to the last candidate.
BestMatch_LastOnTie(name, names) ==
  CHOOSE i \in 1..Len(names) :
    /\ \A j \in 1..Len(names) :
         EditDistance(name, names[i]) <= EditDistance(name, names[j])
    /\ \A j \in (i + 1)..Len(names) :
         EditDistance(name, names[j]) > EditDistance(name, names[i])

\* The index of the best fuzzy match of a name among the known names (a
\* non-empty list): the most similar one, the first of them in the order of
\* the list when several are equally similar.
BestMatch(name, names) ==
  CHOOSE i \in 1..Len(names) :
    /\ \A j \in 1..Len(names) :
         EditDistance(name, names[i]) <= EditDistance(name, names[j])
    /\ \A j \in 1..(i - 1) :
         EditDistance(name, names[j]) > EditDistance(name, names[i])

NotFoundMessage(name) == "POI '" \o Str(name) \o "' not found"

DidYouMeanMessage(name, match) ==
  "POI '" \o Str(name) \o "' not found. Did you mean '" \o Str(match) \o "'?"

\* The warning for a referenced name that is not a known name: the suggestion
\* when the best match is similar enough, the plain warning otherwise.
PoiWarning(name, names, context) ==
  IF names = << >> THEN Finding(context, "warning", NotFoundMessage(name))
  ELSE LET match == names[BestMatch(name, names)]
       IN IF EditDistance(name, match) <= SuggestDistance
          THEN Finding(context, "warning", DidYouMeanMessage(name, match))
          ELSE Finding(context, "warning", NotFoundMessage(name))

\* validate_poi_references with one warning for every candidate that is
\* similar enough.
RECURSIVE validate_poi_references_PerCandidate(_, _, _)
validate_poi_references_PerCandidate(referenced_names, known_pois, context) ==
  IF referenced_names = << >> THEN << >>
  ELSE LET name == Head(referenced_names)
           names == PoiNames(known_pois)
           near == SelectSeq(names,
                     LAMBDA k : EditDistance(name, k) <= SuggestDistance)
           here ==
             IF \E i \in 1..Len(names) : names[i] = name THEN << >>
             ELSE IF near = << >>
             THEN <<Finding(context, "warning", NotFoundMessage(name))>>
             ELSE [i \in 1..Len(near) |->
                     Finding(context, "warning",
                             DidYouMeanMessage(name, near[i]))]
       IN here \o validate_poi_references_PerCandidate(
                    Tail(referenced_names), known_pois, context)

\* validate_poi_references(referenced_names, known_pois, context): one
\* warning for every referenced name that is not the name of a known point of
\* interest.  referenced_names is the set in the order it is iterated.
RECURSIVE validate_poi_references(_, _, _)
validate_poi_references(referenced_names, known_pois, context) ==
  IF referenced_names = << >> THEN << >>
  ELSE LET name == Head(referenced_names)
           names == PoiNames(known_pois)
           here ==
             IF \E i \in 1..Len(names) : names[i] = name THEN << >>
             ELSE <<PoiWarning(name, names, context)>>
       IN here \o validate_poi_references(
                    Tail(referenced_names), known_pois, context)

\* MonitoringRegion(name, bounds).
MonitoringRegion(name, bounds) == [name |-> name, bounds |-> bounds]

\* AlertChannel(name, channel_type, webhook_url, rules).  rules is one
\* AlertRule: a record with min_magnitude, the names of the points of
\* interest it references in poi_names (in iteration order), and
\* max_magnitude when it has one.
AlertChannel(name, channel_type, webhook_url, rules) ==
  [name |-> name, channel_type |-> channel_type,
   webhook_url |-> webhook_url, rules |-> rules]

\* Config(monitoring_regions, points_of_interest, alert_channels).
Config(monitoring_regions, points_of_interest, alert_channels) ==
  [monitoring_regions |-> monitoring_regions,
   points_of_interest |-> points_of_interest,
   alert_channels |-> alert_channels]

\* The lists of findings of a list, one after the other.
RECURSIVE Flatten(_)
Flatten(lists) ==
  IF lists = << >> THEN << >> ELSE Head(lists) \o Flatten(Tail(lists))

RadiusMessage == "radius must be non-negative"
MinRangeMessage == "min_magnitude must be between 0 and 10"
MaxRangeMessage == "max_magnitude must be between 0 and 10"
MinMaxMessage == "min_magnitude must not exceed max_magnitude"
PlaceholderMessage == "webhook_url is an unresolved placeholder"
NoChannelsMessage == "No alert channels configured"

\* The checks of a monitoring region: its bounds.
validate_region(region) == validate_bounds(region.bounds, "monitoring_regions")

\* validate_poi with a negative radius reported as a warning.
validate_poi_RadiusWarns(poi) ==
  validate_coordinates(poi.latitude, poi.longitude, "points_of_interest")
  \o (IF poi.radius < 0
      THEN <<Finding("points_of_interest", "warning", RadiusMessage)>>
      ELSE << >>)

\* The checks of a point of interest: its coordinates, then its radius.
validate_poi(poi) ==
  validate_coordinates(poi.latitude, poi.longitude, "points_of_interest")
  \o (IF poi.radius < 0
      THEN <<Finding("points_of_interest", "error", RadiusMessage)>>
      ELSE << >>)

\* The checks of an alert rule: each threshold in [0, 10], and
\* min_magnitude <= max_magnitude when the rule has both.
validate_rule(rule) ==
  (IF rule.min_magnitude < 0 \/ rule.min_magnitude > 10
   THEN <<Finding("alert_channels", "error", MinRangeMessage)>> ELSE << >>)
  \o (IF Has(rule, "max_magnitude")
         /\ (rule.max_magnitude < 0 \/ rule.max_magnitude > 10)
      THEN <<Finding("alert_channels", "error", MaxRangeMessage)>> ELSE << >>)
  \o (IF Has(rule, "max_magnitude")
         /\ rule.min_magnitude > rule.max_magnitude
      THEN <<Finding("alert_channels", "error", MinMaxMessage)>> ELSE << >>)

\* A delivery target is a sequence of tokens; it is an unresolved placeholder
\* when it has the bracket syntax ${...}: ${secret:NAME} or ${VAR_NAME}.
IsPlaceholder(webhook_url) ==
  /\ Len(webhook_url) >= 3
  /\ webhook_url[1] = "${"
  /\ webhook_url[Len(webhook_url)] = "}"

\* validate_channel with an unresolved placeholder reported as a critical
\* error.
validate_channel_PlaceholderBlocks(channel) ==
  validate_rule(channel.rules)
  \o (IF IsPlaceholder(channel.webhook_url)
      THEN <<Finding("alert_channels", "error", PlaceholderMessage)>>
      ELSE << >>)

\* The checks of an alert channel: its rule, then its delivery target.
validate_channel(channel) ==
  validate_rule(channel.rules)
  \o (IF IsPlaceholder(channel.webhook_url)
      THEN <<Finding("alert_channels", "warning", PlaceholderMessage)>>
      ELSE << >>)

\* ValidationResult with valid only when there is no finding at all.
ValidationResult_AnyFindingBlocks(errors) ==
  [valid |-> errors = << >>,
   errors |-> errors,
   warnings |-> SelectSeq(errors, LAMBDA e : e.severity = "warning"),
   critical_errors |-> SelectSeq(errors, LAMBDA e : e.severity = "error")]

\* ValidationResult: valid, the findings, and the two derived views, warnings
\* and critical_errors, as they read for these findings.
ValidationResult(errors) ==
  [valid |-> \A i \in 1..Len(errors) : errors[i].severity # "error",
   errors |-> errors,
   warnings |-> SelectSeq(errors, LAMBDA e : e.severity = "warning"),
   critical_errors |-> SelectSeq(errors, LAMBDA e : e.severity = "error")]

\* validate_config without the global advisory.
validate_config_NoAdvisory(config) ==
  LET cross(channel) ==
        validate_poi_references(channel.rules.poi_names,
                                config.points_of_interest, "alert_channels")
  IN ValidationResult(
       Flatten([i \in 1..Len(config.monitoring_regions) |->
                   validate_region(config.monitoring_regions[i])])
       \o Flatten([i \in 1..Len(config.points_of_interest) |->
                   validate_poi(config.points_of_interest[i])])
       \o Flatten([i \in 1..Len(config.alert_channels) |->
                   validate_channel(config.alert_channels[i])])
       \o Flatten([i \in 1..Len(config.alert_channels) |->
                   cross(config.alert_channels[i])]))

\* validate_config(config): the findings of the regions, then of the points
\* of interest, then of the channels and their rules, then of the
\* cross-references, then the global advisory; no check stops another.
validate_config(config) ==
  LET cross(channel) ==
        validate_poi_references(channel.rules.poi_names,
                                config.points_of_interest, "alert_channels")
  IN ValidationResult(
       Flatten([i \in 1..Len(config.monitoring_regions) |->
                   validate_region(config.monitoring_regions[i])])
       \o Flatten([i \in 1..Len(config.points_of_interest) |->
                   validate_poi(config.points_of_interest[i])])
       \o Flatten([i \in 1..Len(config.alert_channels) |->
                   validate_channel(config.alert_channels[i])])
       \o Flatten([i \in 1..Len(config.alert_channels) |->
                   cross(config.alert_channels[i])])
       \o (IF config.alert_channels = << >>
           THEN <<Finding("config", "warning", NoChannelsMessage)>>
           ELSE << >>))

(* ----------------------- core/locale.py: validation -------------------- *)

\* A text is a sequence of runs, Run(ch, n) being the character ch repeated
\* n >= 1 times, so that texts of 50, 100 and 200 characters stay small.
Run(ch, n) == [ch |-> ch, n |-> n]

\* len(text)
RECURSIVE StrLen(_)
StrLen(text) == IF text = << >> THEN 0 ELSE Head(text).n + StrLen(Tail(text))

\* text.replace(old, "") for a character old.
Replace(text, old) == SelectSeq(text, LAMBDA r : r.ch # old)

\* The characters str.isalnum() accepts, among those of the texts used here.
AlnumChars == {"a", "7"}

\* text.isalnum(): at least one character, and all of them alphanumeric.
IsAlnum(text) ==
  text # << >> /\ \A i \in 1..Len(text) : text[i].ch \in AlnumChars

\* BoundingBox.contains(latitude, longitude): each coordinate within the
\* closed interval of the box.
contains(box, latitude, longitude) ==
  /\ box.min_latitude <= latitude /\ latitude <= box.max_latitude
  /\ box.min_longitude <= longitude /\ longitude <= box.max_longitude

\* Locale(slug, name, display_name, bounds, center_lat, center_lng,
\* min_magnitude): the fields validate_locale reads.
Locale(slug, name, display_name, bounds, center_lat, center_lng, min_magnitude) ==
  [slug |-> slug, name |-> name, display_name |-> display_name,
   bounds |-> bounds, center_lat |-> center_lat, center_lng |-> center_lng,
   min_magnitude |-> min_magnitude]

MaxSlugLen == 50
MaxNameLen == 100
MaxDisplayNameLen == 200

One(cond, message) == IF cond THEN <<message>> ELSE << >>

\* The checks of validate_locale after the slug check.
LocaleChecks(locale) ==
  LET b == locale.bounds
  IN (IF locale.name = << >> THEN <<"Name is required">>
      ELSE One(StrLen(locale.name) > MaxNameLen,
               "Name must be 100 characters or less"))
     \o (IF locale.display_name = << >> THEN <<"Display name is required">>
         ELSE One(StrLen(locale.display_name) > MaxDisplayNameLen,
                  "Display name must be 200 characters or less"))
     \o One(~(-90 <= b.min_latitude /\ b.min_latitude <= 90),
            "min_latitude must be between -90 and 90")
     \o One(~(-90 <= b.max_latitude /\ b.max_latitude <= 90),
            "max_latitude must be between -90 and 90")
     \o One(b.min_latitude >= b.max_latitude,
            "min_latitude must be less than max_latitude")
     \o One(~(-180 <= b.min_longitude /\ b.min_longitude <= 180),
            "min_longitude must be between -180 and 180")
     \o One(~(-180 <= b.max_longitude /\ b.max_longitude <= 180),
            "max_longitude must be between -180 and 180")
     \o One(b.min_longitude >= b.max_longitude,
            "min_longitude must be less than max_longitude")
     \o One(~contains(b, locale.center_lat, locale.center_lng),
            "Center point must be within bounds")
     \o One(~(0 <= locale.min_magnitude /\ locale.min_magnitude <= 10),
            "min_magnitude must be between 0 and 10")

\* validate_locale accepting a slug of hyphens and underscores only.
validate_locale_AnyAllowedCharacter(locale) ==
  (IF locale.slug = << >> THEN <<"Slug is required">>
   ELSE IF Replace(Replace(locale.slug, "-"), "_") # << >>
           /\ ~IsAlnum(Replace(Replace(locale.slug, "-"), "_"))
   THEN <<"Slug must be alphanumeric (hyphens and underscores allowed)">>
   ELSE One(StrLen(locale.slug) > MaxSlugLen,
            "Slug must be 50 characters or less"))
  \o LocaleChecks(locale)

\* validate_locale(locale): the list of error messages.
validate_locale(locale) ==
  (IF locale.slug = << >> THEN <<"Slug is required">>
   ELSE IF ~IsAlnum(Replace(Replace(locale.slug, "-"), "_"))
   THEN <<"Slug must be alphanumeric (hyphens and underscores allowed)">>
   ELSE One(StrLen(locale.slug) > MaxSlugLen,
            "Slug must be 50 characters or less"))
  \o LocaleChecks(locale)

(* ------------------------- shell/slack_client.py ----------------------- *)

\* An optional text: None, or the text.
None == << >>
Some(text) == <<text>>

\* SlackResponse(success, status_code, error).
SlackResponse(success, status_code, error) ==
  [success |-> success, status_code |-> status_code, error |-> error]

\* What requests.post does with a request: it returns a response with a
\* status code and a body, or raises requests.Timeout, or raises another
\* requests.RequestException e, of which str(e) is kept.
Responded(status_code, text) ==
  [kind |-> "response", status_code |-> status_code, text |-> text]
TimedOut == [kind |-> "Timeout", status_code |-> 0, text |-> ""]
RequestFailed(text) ==
  [kind |-> "RequestException", status_code |-> 0, text |-> text]

\* send_message taking every status below 300 for a success.
send_message_Any2xx(outcome) ==
  IF outcome.kind = "response"
  THEN IF outcome.status_code < 300
       THEN SlackResponse(TRUE, outcome.status_code, None)
       ELSE SlackResponse(FALSE, outcome.status_code, Some(outcome.text))
  ELSE IF outcome.kind = "Timeout"
  THEN SlackResponse(FALSE, 0, Some("Request timed out"))
  ELSE SlackResponse(FALSE, 0, Some(outcome.text))

\* send_message (lines 66-107) as a function of what requests.post did.
send_message(outcome) ==
  IF outcome.kind = "response"
  THEN IF outcome.status_code = 200
       THEN SlackResponse(TRUE, outcome.status_code, None)
       ELSE SlackResponse(FALSE, outcome.status_code, Some(outcome.text))
  ELSE IF outcome.kind = "Timeout"
  THEN SlackResponse(FALSE, 0, Some("Request timed out"))
  ELSE SlackResponse(FALSE, 0, Some(outcome.text))

(* --------------------- core/locale.py: record format ------------------- *)
\* The two conversions on records with every field.  locale_from_dict and
\* locale_to_firestore_dict above are these on the fields the cache reads,
\* with "box" standing for the map of the four bounds.

\* Locale.min_magnitude's default, 2.5: magnitudes of records are in tenths.
DefaultMinMagnitude == 25

\* The Locale of all twelve fields.
FullLocale(slug, name, display_name, bounds, center_lat, center_lng, min_magnitude, is_active, is_featured, sort_order, created_at, updated_at) ==
  [slug |-> slug, name |-> name, display_name |-> display_name,
   bounds |-> bounds, center_lat |-> center_lat, center_lng |-> center_lng,
   min_magnitude |-> min_magnitude, is_active |-> is_active,
   is_featured |-> is_featured, sort_order |-> sort_order,
   created_at |-> created_at, updated_at |-> updated_at]

\* locale_to_firestore_dict (lines 142-159) on a Locale of all fields.
LocaleToFirestoreDict(locale) ==
  [slug |-> locale.slug,
   name |-> locale.name,
   display_name |-> locale.display_name,
   bounds |-> [min_latitude |-> locale.bounds.min_latitude,
               max_latitude |-> locale.bounds.max_latitude,
               min_longitude |-> locale.bounds.min_longitude,
               max_longitude |-> locale.bounds.max_longitude],
   center |-> [lat |-> locale.center_lat, lng |-> locale.center_lng],
   min_magnitude |-> locale.min_magnitude,
   is_active |-> locale.is_active,
   is_featured |-> locale.is_featured,
   sort_order |-> locale.sort_order,
   created_at |-> locale.created_at,
   updated_at |-> locale.updated_at]

\* LocaleFromDict with a record that omits is_active read as inactive.
LocaleFromDict_DefaultInactive(data) ==
  LET bounds_data == Get(data, "bounds", EmptyDoc)
      center_data == Get(data, "center", EmptyDoc)
  IN FullLocale(data["slug"], data["name"], data["display_name"],
                BoundingBox(bounds_data["min_latitude"],
                            bounds_data["max_latitude"],
                            bounds_data["min_longitude"],
                            bounds_data["max_longitude"]),
                center_data["lat"], center_data["lng"],
                Get(data, "min_magnitude", DefaultMinMagnitude),
                Get(data, "is_active", FALSE),
                Get(data, "is_featured", TRUE),
                Get(data, "sort_order", 0),
                Get(data, "created_at", NoneStamp),
                Get(data, "updated_at", NoneStamp))

\* locale_from_dict (lines 172-194) on a record that has slug, name,
\* display_name, the four bounds and the center.
LocaleFromDict(data) ==
  LET bounds_data == Get(data, "bounds", EmptyDoc)
      center_data == Get(data, "center", EmptyDoc)
  IN FullLocale(data["slug"], data["name"], data["display_name"],
                BoundingBox(bounds_data["min_latitude"],
                            bounds_data["max_latitude"],
                            bounds_data["min_longitude"],
                            bounds_data["max_longitude"]),
                center_data["lat"], center_data["lng"],
                Get(data, "min_magnitude", DefaultMinMagnitude),
                Get(data, "is_active", TRUE),
                Get(data, "is_featured", TRUE),
                Get(data, "sort_order", 0),
                Get(data, "created_at", NoneStamp),
                Get(data, "updated_at", NoneStamp))

(* --------------------- shell/secret_manager_client.py ------------------ *)
\* A text of this client is a sequence of tokens: the characters of a name,
\* and "${", "secret:" and "}" for the pieces of the placeholder syntax.  An
\* optional text is None or Some(text).

\* value.startswith("${") and value.endswith("}") (line 144).
HasPlaceholderSyntax(value) ==
  /\ Len(value) >= 2
  /\ value[1] = "${"
  /\ value[Len(value)] = "}"

\* value[2:-1] (line 147).
VarSpec(value) == SubSeq(value, 2, Len(value) - 1)

\* var_spec.startswith("secret:") (line 150).
IsSecretSpec(var_spec) == var_spec # << >> /\ var_spec[1] = "secret:"

\* var_spec[7:] (line 151).
SecretName(var_spec) == Tail(var_spec)

\* str.upper() on one character.
Upper(ch) == IF ch = "a" THEN "A" ELSE IF ch = "b" THEN "B" ELSE ch

\* The environment variable name with the hyphens kept.
EnvName_HyphensKept(secret_name) ==
  [i \in 1..Len(secret_name) |-> Upper(secret_name[i])]

\* secret_name.upper().replace("-", "_") (line 157).
EnvName(secret_name) ==
  [i \in 1..Len(secret_name) |->
     IF Upper(secret_name[i]) = "-" THEN "_" ELSE Upper(secret_name[i])]

\* os.environ.get(name): None when the variable is not set.
EnvGet(environ, name) ==
  IF name \in DOMAIN environ THEN environ[name] ELSE None

\* The truth value of an optional text: neither None nor empty.
Truthy(opt) == opt # None /\ opt[1] # << >>

(* ------------------------------ inputs --------------------------------- *)

\* The latitudes and longitudes the validation engine is called with: the
\* boundary values, their neighbours outside, and a value inside.
LatValues == {-91, -90, 0, 90, 91}
LngValues == {-181, -180, 0, 180, 181}

\* The bounding boxes validate_bounds is called with.
BoxValues ==
  {BoundingBox(a, b, c, d) : a \in LatValues, b \in LatValues,
                             c \in LngValues, d \in LngValues}

\* The names of points of interest: the one- and two-letter names over a
\* two-letter alphabet.
Letters == {"a", "b"}
NameValues ==
  {<<x>> : x \in Letters} \cup {<<x, y>> : x \in Letters, y \in Letters}

\* The lists of at most two distinct names.
NameLists ==
  {<< >>} \cup {<<n>> : n \in NameValues}
    \cup {l \in {<<n, m>> : n \in NameValues, m \in NameValues} :
            l[1] # l[2]}

\* The lists of at most two elements of a set.
UpToTwo(S) == {<< >>} \cup {<<x>> : x \in S} \cup {<<x, y>> : x \in S, y \in S}

\* Monitoring regions: one with good bounds, one with a latitude out of
\* range, one with the latitudes in the wrong order.
RegionValues ==
  {MonitoringRegion("Test", BoundingBox(0, 90, -180, 0)),
   MonitoringRegion("Invalid", BoundingBox(-91, 0, -180, 0)),
   MonitoringRegion("Swapped", BoundingBox(90, 0, -180, 0))}

\* Points of interest named "a": the latitude in or out of range, the radius
\* positive or negative.
PoiValues ==
  {PointOfInterest(<<"a">>, lat, 0, radius) : lat \in {0, 91},
                                              radius \in {-1, 50}}

\* Delivery targets: a resolved URL and the two placeholder forms.
WebhookValues ==
  {<<"https://", "hooks.slack.com/test">>,
   <<"${", "secret:", "unresolved", "}">>,
   <<"${", "VAR_NAME", "}">>}

\* Alert rules: thresholds in and out of [0, 10], with and without a
\* maximum, referencing no point of interest or the one named "b".
RuleValues ==
  LET mins == {3, 5, 11}
      refs == {<< >>, <<<<"b">>>>}
  IN {[min_magnitude |-> m, poi_names |-> r] : m \in mins, r \in refs}
     \cup {[min_magnitude |-> m, max_magnitude |-> 3, poi_names |-> r] :
             m \in mins, r \in refs}

ChannelValues ==
  {AlertChannel("test", "slack", w, r) : w \in WebhookValues,
                                         r \in RuleValues}

\* The lists of a configuration: at most one region, at most two points of
\* interest, at most two channels.
RegionLists == {<< >>} \cup {<<r>> : r \in RegionValues}
PoiLists == UpToTwo(PoiValues)
ChannelLists == UpToTwo(ChannelValues)

\* Slugs: empty, one run of a letter, a digit, a hyphen, an underscore or an
\* exclamation mark, and a run of letters followed by one of the last three,
\* with lengths around 50.
SlugValues ==
  {<< >>}
    \cup {<<Run(ch, n)>> : ch \in {"a", "7", "-", "_", "!"}, n \in {1, 50, 51}}
    \cup {<<Run("a", n), Run(ch, 1)>> : n \in {1, 49, 50},
                                        ch \in {"-", "_", "!"}}

\* Names and display names: empty, and of lengths around the limit.
NameTexts == {<< >>, <<Run("a", 100)>>, <<Run("a", 101)>>}
DisplayNameTexts == {<< >>, <<Run("a", 1), Run(" ", 199)>>, <<Run("a", 201)>>}

\* Bounds of a locale: each axis good, with one end out of range, empty or
\* reversed.
LocaleBoxes ==
  {BoundingBox(lat[1], lat[2], lng[1], lng[2]) :
     lat \in {<<-90, 90>>, <<-91, 90>>, <<-90, 91>>, <<0, 0>>, <<90, -90>>},
     lng \in {<<-180, 180>>, <<-181, 180>>, <<-180, 181>>, <<0, 0>>}}

\* Centers on and beyond the edges of the boxes, and magnitudes around the
\* ends of [0, 10].
CenterLats == {-91, -90, 90}
CenterLngs == {-180, 181}
Magnitudes == {-1, 0, 10, 11}

\* The Locale values converted: two slugs, two boxes, centers whose
\* latitude and longitude differ, every optional field at its default and
\* away from it.
OptionalFields ==
  {"min_magnitude", "is_active", "is_featured", "sort_order", "created_at",
   "updated_at"}
RecordBoxes == {BoundingBox(33, 35, -119, -117), BoundingBox(-90, 90, -180, 180)}
RecordMagnitudes == {0, DefaultMinMagnitude, 30}
RecordStamps == {NoneStamp, ClockStart}

\* A raw record without some of its fields.
Omit(data, keys) == [k \in DOMAIN data \ keys |-> data[k]]

\* The values resolve is called with: plain texts, texts with part of the
\* placeholder syntax, and placeholders of both forms.
ResolveValues ==
  {<< >>, <<"a", "-", "b">>, <<"${", "A", "_", "B">>, <<"A", "_", "B", "}">>,
   <<"a", "${", "A", "_", "B", "}">>, <<"${", "}">>,
   <<"${", "secret:", "a", "-", "b", "}">>,
   <<"${", "secret:", "A", "_", "B", "}">>,
   <<"${", "A", "_", "B", "}">>, <<"${", "a", "-", "b", "}">>}

\* The environments: A_B unset, empty or set, and a-b unset or set.
Environments ==
  {(<<"A", "_", "B">> :> x) @@ (<<"a", "-", "b">> :> y) :
     x \in {None, Some(<< >>), Some(<<"from A_B">>)},
     y \in {None, Some(<<"from a-b">>)}}

\* What access_secret_version does for a request: it returns the secret,
\* possibly empty, or raises.
SecretOutcomes ==
  {[kind |-> "value", text |-> <<"s3cret">>],
   [kind |-> "value", text |-> << >>],
   [kind |-> "raises", text |-> << >>]}

\* The longest list of payloads send_messages is called with.
MaxPayloads == 3

\* The payloads, and the lists of them send_messages is called with.
Payloads == {"Message 1", "Message 2"}
PayloadLists == UNION {[1..n -> Payloads] : n \in 0..MaxPayloads}

\* What requests.post may do with a request.
Outcomes ==
  {Responded(st, body) : st \in {200, 201, 500},
                         body \in {"ok", "invalid_payload"}}
    \cup {TimedOut, RequestFailed("Connection failed"), RequestFailed("")}

\* The documents the collection may hold under each id when the client is
\* constructed: well-formed records whose (sort_order, name) order differs
\* from the document order, records that do not parse, an empty record.
SeedDocs(id) ==
  IF id = "la"
  THEN {NoDoc, RawDoc("la", 2, 0, TRUE, TRUE), NoNameDoc("la"), EmptyDoc}
  ELSE {NoDoc, RawDoc(id, 1, 0, TRUE, FALSE), BadBoundsDoc(id)}

\* The name a record is stored with under each id.
NameOf(id) == IF id = "la" THEN 2 ELSE 1

\* The documents the collection may hold under each id when the listing is
\* examined: every combination of sort_order and of the two flags, and a
\* record that leaves all three to their defaults.
ViewDocs(id) ==
  {NoDoc, BareDoc(id, NameOf(id))}
    \cup {RawDoc(id, NameOf(id), so, a, f) :
            so \in 0..1, a \in BOOLEAN, f \in BOOLEAN}

\* The documents the collection may hold under each id when the admin read
\* is examined: those of SeedDocs and an inactive record.
AdminDocs(id) == SeedDocs(id) \cup {RawDoc(id, NameOf(id), 1, FALSE, TRUE)}

\* The slugs the mutations are called with.
WriteSlugs == {"la"}

\* A timestamp a caller puts into the Locale it passes to create_locale: a
\* time before the client was constructed.
CallerStamp == ClockStart - 1

\* The Locale values create_locale is called with.
CreateArgs(slug) ==
  {[locale_from_dict(RawDoc(slug, 1, 1, TRUE, TRUE))
      EXCEPT !.created_at = CallerStamp, !.updated_at = CallerStamp]}

\* The updates update_locale is called with.
UpdateArgs == {[sort_order |-> 1]}

\* The slugs get_locale is called with.
LookupSlugs == DocIds \cup {"LA"}

(* ------------------------------ state ---------------------------------- *)

VARIABLES
  store,            \* the locales collection: document id -> raw record or NoDoc
  store_ok,         \* whether a store call made now succeeds
  now,              \* time.time()
  ttl,              \* self.config.cache_ttl_seconds
  cache,            \* self._cache
  cache_timestamp,  \* self._cache_timestamp
  th,               \* per thread: the call in progress and its locals
  inval_pending,    \* history: what invalidated the cache since the last read
                    \* began: "none", "write" (a mutation), "once", "twice"
                    \* (that many invalidate_cache() calls in a row)
  inval_since,      \* history: invalidate_cache() ran since the last successful refresh
  last_refresh,     \* history: time of the last successful refresh, -1 if none
  admin_failed      \* history: a get_all_locales_admin call failed since the
                    \* last read began

vars == <<store, store_ok, now, ttl, cache, cache_timestamp, th,
          inval_pending, inval_since, last_refresh, admin_failed>>

shared == <<store, cache, cache_timestamp>>
env == <<store_ok, now, ttl>>
hist == <<inval_pending, inval_since, last_refresh, admin_failed>>

\* History: the time of the last successful refresh, or 0 when there was none
\* or invalidate_cache() ran since.
EffectiveStamp == IF inval_since \/ last_refresh < 0 THEN 0 ELSE last_refresh

\* The locals of a thread that is in no call.
Idle ==
  [pc |-> "idle", op |-> "none", slug |-> "", active_only |-> TRUE,
   featured_only |-> FALSE, hard |-> FALSE, docs |-> << >>, fetched |-> << >>,
   attempts |-> 0, refresh |-> "none", valid |-> FALSE, due |-> FALSE,
   stale |-> FALSE, must |-> "none", pre_cache |-> << >>, pre_ts |-> 0, pre_store |-> << >>,
   after_fail |-> FALSE, ok |-> TRUE, msg |-> "", args |-> << >>,
   result |-> << >>, responses |-> << >>, posted |-> << >>,
   looked_up |-> << >>]

ReadOps == {"get_all_locales", "get_locale"}
AdminOps == {"get_all_locales_admin"}
WriteOps == {"create_locale", "update_locale", "delete_locale", "restore_locale"}

\* LocaleClient.__init__ (lines 79-82) over a configuration: nothing cached,
\* no call in progress.
Constructed ==
  /\ store_ok = TRUE
  /\ now = ClockStart
  /\ ttl \in TtlValues
  /\ cache = EmptyDict
  /\ cache_timestamp = 0
  /\ th = [t \in Threads |-> Idle]
  /\ inval_pending = "none"
  /\ inval_since = FALSE
  /\ last_refresh = -1
  /\ admin_failed = FALSE

\* The client as constructed, over a store.
Init ==
  /\ store \in [DocIds -> UNION {SeedDocs(id) : id \in DocIds}]
  /\ \A id \in DocIds : store[id] \in SeedDocs(id)
  /\ Constructed

Set(t, r) == th' = [th EXCEPT ![t] = r]

(* ------------------------------ read path ------------------------------ *)

\* get_all_locales / get_locale, lines 151 and 177: the validity check that
\* opens the call.
BeginRead(t, op) ==
  /\ th[t].pc = "idle"
  /\ LET v == IsCacheValid(cache, cache_timestamp, now, ttl)
     IN Set(t, [Idle EXCEPT
                  !.pc = IF v THEN "serve" ELSE "stream",
                  !.op = op, !.valid = v,
                  !.due = (cache = EmptyDict \/ last_refresh < 0
                           \/ now - last_refresh >= ttl),
                  !.stale = (cache = EmptyDict
                             \/ now - EffectiveStamp >= ttl),
                  !.must = inval_pending,
                  !.after_fail = admin_failed,
                  !.pre_cache = cache, !.pre_ts = cache_timestamp])
  /\ inval_pending' = "none"
  /\ admin_failed' = FALSE
  /\ UNCHANGED <<shared, env, inval_since, last_refresh>>

\* _refresh_cache, line 108: open the stream; a failure is caught at line 123.
Stream(t) ==
  /\ th[t].pc = "stream"
  /\ IF store_ok
     THEN Set(t, [th[t] EXCEPT !.pc = "reset", !.attempts = @ + 1,
                               !.docs = StreamDocs(store),
                               !.fetched = StreamDocs(store)])
     ELSE Set(t, [th[t] EXCEPT !.pc = "serve", !.attempts = @ + 1,
                               !.refresh = "failed"])
  /\ UNCHANGED <<shared, env, hist>>

\* _refresh_cache, line 109: self._cache = {}.
Reset(t) ==
  /\ th[t].pc = "reset"
  /\ cache' = EmptyDict
  /\ Set(t, [th[t] EXCEPT !.pc = "iter"])
  /\ UNCHANGED <<store, cache_timestamp, env, hist>>

\* _refresh_cache, lines 111-118: one turn of the loop; the stream may fail
\* while it is read, which ends the refresh at line 123.
Iter(t) ==
  /\ th[t].pc = "iter"
  /\ th[t].docs # << >>
  /\ IF store_ok
     THEN /\ cache' = LoadOne(cache, Head(th[t].docs))
          /\ Set(t, [th[t] EXCEPT !.docs = Tail(@)])
     ELSE /\ Set(t, [th[t] EXCEPT !.pc = "serve", !.refresh = "failed",
                                  !.docs = << >>])
          /\ UNCHANGED cache
  /\ UNCHANGED <<store, cache_timestamp, env, hist>>

\* _refresh_cache, line 120: the loop is over, reset the staleness clock.
Stamp(t) ==
  /\ th[t].pc = "iter"
  /\ th[t].docs = << >>
  /\ cache_timestamp' = now
  /\ last_refresh' = now
  /\ inval_since' = FALSE
  /\ Set(t, [th[t] EXCEPT !.pc = "serve", !.refresh = "ok"])
  /\ UNCHANGED <<store, cache, env, inval_pending, admin_failed>>

\* get_all_locales, lines 154-164.
ServeAll(t) ==
  /\ th[t].pc = "serve"
  /\ th[t].op = "get_all_locales"
  /\ \E ao \in BOOLEAN, fo \in BOOLEAN :
       Set(t, [th[t] EXCEPT !.pc = "done", !.active_only = ao,
                            !.featured_only = fo,
                            !.result = LocaleView(cache, ao, fo)])
  /\ UNCHANGED <<shared, env, hist>>

\* get_locale, line 180.
ServeOne(t) ==
  /\ th[t].pc = "serve"
  /\ th[t].op = "get_locale"
  /\ \E slug \in LookupSlugs :
       Set(t, [th[t] EXCEPT !.pc = "done", !.slug = slug,
                            !.result = DictGet(cache, slug)])
  /\ UNCHANGED <<shared, env, hist>>

(* ------------------------------ admin read ----------------------------- *)

\* get_all_locales_admin, line 192: the call begins.
BeginAdmin(t) ==
  /\ th[t].pc = "idle"
  /\ Set(t, [Idle EXCEPT !.pc = "a_stream", !.op = "get_all_locales_admin",
                         !.pre_cache = cache, !.pre_ts = cache_timestamp])
  /\ UNCHANGED <<shared, env, hist>>

\* get_all_locales_admin, lines 209-211: a failure ends the call with [].
AdminFailed(t) ==
  /\ Set(t, [th[t] EXCEPT !.pc = "done", !.refresh = "failed",
                          !.docs = << >>, !.result = << >>])
  /\ admin_failed' = TRUE

\* AdminStream with a call that is answered from a cache that is valid.
AdminStream_FromCache(t) ==
  /\ th[t].pc = "a_stream"
  /\ IF IsCacheValid(cache, cache_timestamp, now, ttl)
     THEN /\ Set(t, [th[t] EXCEPT !.pc = "done", !.refresh = "ok",
                                  !.result = SortLocales(cache)])
          /\ UNCHANGED admin_failed
     ELSE IF store_ok
     THEN /\ Set(t, [th[t] EXCEPT !.pc = "a_iter", !.attempts = @ + 1,
                                  !.docs = StreamDocs(store),
                                  !.fetched = StreamDocs(store),
                                  !.result = << >>])
          /\ UNCHANGED admin_failed
     ELSE AdminFailed(t)
  /\ UNCHANGED <<shared, env, inval_pending, inval_since, last_refresh>>

\* get_all_locales_admin, lines 195-196: open the stream, locales = [].
AdminStream(t) ==
  /\ th[t].pc = "a_stream"
  /\ IF store_ok
     THEN /\ Set(t, [th[t] EXCEPT !.pc = "a_iter", !.attempts = @ + 1,
                                  !.docs = StreamDocs(store),
                                  !.fetched = StreamDocs(store),
                                  !.result = << >>])
          /\ UNCHANGED admin_failed
     ELSE /\ Set(t, [th[t] EXCEPT !.pc = "done", !.attempts = @ + 1,
                                  !.refresh = "failed", !.result = << >>])
          /\ admin_failed' = TRUE
  /\ UNCHANGED <<shared, env, inval_pending, inval_since, last_refresh>>

\* The body of the admin loop for one streamed document (lines 199-204).
AdminLoadOne(l, data) ==
  IF DOMAIN data = {} THEN l
  ELSE IF ParseRaises(data) THEN l
  ELSE Append(l, locale_from_dict(data))

\* AdminIter with a failure that returns the locales read so far.
AdminIter_KeepsPartial(t) ==
  /\ th[t].pc = "a_iter"
  /\ th[t].docs # << >>
  /\ IF store_ok
     THEN /\ Set(t, [th[t] EXCEPT !.docs = Tail(@),
                                  !.result = AdminLoadOne(@, Head(th[t].docs))])
          /\ UNCHANGED admin_failed
     ELSE /\ Set(t, [th[t] EXCEPT !.pc = "done", !.refresh = "failed",
                                  !.docs = << >>])
          /\ admin_failed' = TRUE
  /\ UNCHANGED <<shared, env, inval_pending, inval_since, last_refresh>>

\* get_all_locales_admin, lines 198-204: one turn of the loop; the stream may
\* fail while it is read, which ends the call at line 209.
AdminIter(t) ==
  /\ th[t].pc = "a_iter"
  /\ th[t].docs # << >>
  /\ IF store_ok
     THEN /\ Set(t, [th[t] EXCEPT !.docs = Tail(@),
                                  !.result = AdminLoadOne(@, Head(th[t].docs))])
          /\ UNCHANGED admin_failed
     ELSE AdminFailed(t)
  /\ UNCHANGED <<shared, env, inval_pending, inval_since, last_refresh>>

\* get_all_locales_admin, lines 206-207: sort and return.
AdminSort(t) ==
  /\ th[t].pc = "a_iter"
  /\ th[t].docs = << >>
  /\ Set(t, [th[t] EXCEPT !.pc = "done", !.refresh = "ok",
                          !.result = SortLocales(@)])
  /\ UNCHANGED <<shared, env, hist>>

(* ------------------------------ mutations ------------------------------ *)

\* invalidate_cache that also drops the cached map.
InvalidateCache_DropsCache(t) ==
  /\ th[t].pc = "idle"
  /\ cache_timestamp' = InvalidatedTimestamp
  /\ cache' = EmptyDict
  /\ inval_pending' = IF inval_pending \in {"once", "twice"} THEN "twice" ELSE "once"
  /\ inval_since' = TRUE
  /\ Set(t, [Idle EXCEPT !.pc = "done", !.op = "invalidate_cache",
                         !.pre_cache = cache, !.pre_ts = cache_timestamp])
  /\ UNCHANGED <<store, env, last_refresh, admin_failed>>

\* invalidate_cache, line 132.
InvalidateCache(t) ==
  /\ th[t].pc = "idle"
  /\ cache_timestamp' = InvalidatedTimestamp
  /\ inval_pending' = IF inval_pending \in {"once", "twice"} THEN "twice" ELSE "once"
  /\ inval_since' = TRUE
  /\ Set(t, [Idle EXCEPT !.pc = "done", !.op = "invalidate_cache",
                         !.pre_cache = cache, !.pre_ts = cache_timestamp])
  /\ UNCHANGED <<store, cache, env, last_refresh, admin_failed>>

\* The entry of create_locale, update_locale, delete_locale, restore_locale.
BeginWrite(t, op, slug) ==
  /\ th[t].pc = "idle"
  /\ Set(t, [Idle EXCEPT !.pc = "m_get", !.op = op, !.slug = slug,
                         !.pre_cache = cache, !.pre_ts = cache_timestamp,
                         !.pre_store = store])
  /\ UNCHANGED <<shared, env, hist>>

\* The result of a mutation that ends without writing.
Failed(t, msg) == Set(t, [th[t] EXCEPT !.pc = "done", !.ok = FALSE, !.msg = msg])

\* CheckExists with invalidate_cache() called before the existence test.
CheckExists_InvalidateFirst(t) ==
  /\ th[t].pc = "m_get"
  /\ IF ~store_ok THEN Failed(t, "failed")
     ELSE IF th[t].op = "create_locale"
     THEN IF Exists(store, th[t].slug) THEN Failed(t, "exists")
          ELSE Set(t, [th[t] EXCEPT !.pc = "m_write"])
     ELSE IF ~Exists(store, th[t].slug) THEN Failed(t, "not found")
          ELSE Set(t, [th[t] EXCEPT !.pc = "m_write"])
  /\ cache_timestamp' = InvalidatedTimestamp
  /\ UNCHANGED <<store, cache, env, hist>>

\* CheckExists with update, delete and restore going on to the write
\* without testing for the document.
CheckExists_NoExistenceTest(t) ==
  /\ th[t].pc = "m_get"
  /\ IF ~store_ok THEN Failed(t, "failed")
     ELSE IF th[t].op = "create_locale"
     THEN IF Exists(store, th[t].slug) THEN Failed(t, "exists")
          ELSE Set(t, [th[t] EXCEPT !.pc = "m_write"])
     ELSE Set(t, [th[t] EXCEPT !.pc = "m_write"])
  /\ UNCHANGED <<shared, env, hist>>

\* CheckExists with a create_locale that does not test for the document.
CheckExists_CreateOverwrites(t) ==
  /\ th[t].pc = "m_get"
  /\ IF ~store_ok THEN Failed(t, "failed")
     ELSE IF th[t].op = "create_locale"
     THEN Set(t, [th[t] EXCEPT !.pc = "m_write"])
     ELSE IF ~Exists(store, th[t].slug) THEN Failed(t, "not found")
          ELSE Set(t, [th[t] EXCEPT !.pc = "m_write"])
  /\ UNCHANGED <<shared, env, hist>>

\* doc_ref.get().exists (lines 227, 261, 291, 329); a store failure is
\* caught by the handler of the call.
CheckExists(t) ==
  /\ th[t].pc = "m_get"
  /\ IF ~store_ok THEN Failed(t, "failed")
     ELSE IF th[t].op = "create_locale"
     THEN IF Exists(store, th[t].slug) THEN Failed(t, "exists")
          ELSE Set(t, [th[t] EXCEPT !.pc = "m_write"])
     ELSE IF ~Exists(store, th[t].slug) THEN Failed(t, "not found")
          ELSE Set(t, [th[t] EXCEPT !.pc = "m_write"])
  /\ UNCHANGED <<shared, env, hist>>

\* create_locale, lines 231-234: the record of the locale, with both
\* timestamps set to the time of the call.
CreateData(loc, n) ==
  [locale_to_firestore_dict(loc) EXCEPT !.created_at = n, !.updated_at = n]

\* create_locale, lines 231-236: doc_ref.set(data).
WriteCreate(t) ==
  /\ th[t].pc = "m_write"
  /\ th[t].op = "create_locale"
  /\ IF ~store_ok THEN Failed(t, "failed") /\ UNCHANGED store
     ELSE \E loc \in CreateArgs(th[t].slug) :
            /\ store' = [store EXCEPT ![th[t].slug] = CreateData(loc, now)]
            /\ Set(t, [th[t] EXCEPT !.pc = "m_inval", !.msg = "created"])
  /\ UNCHANGED <<cache, cache_timestamp, env, hist>>

\* doc_ref.update(fields) on a document: NotFound when it is gone.
UpdateDoc(t, upd, msg) ==
  IF ~store_ok \/ ~Exists(store, th[t].slug)
  THEN Failed(t, "failed") /\ UNCHANGED store
  ELSE /\ store' = [store EXCEPT ![th[t].slug] = Merge(@, upd)]
       /\ Set(t, [th[t] EXCEPT !.pc = "m_inval", !.msg = msg])

\* updates["updated_at"] = datetime.now(timezone.utc) (line 265, and the
\* dict literals of lines 299-302 and 333-336).
Touched(upd, n) == Merge(upd, [updated_at |-> n])

\* update_locale, lines 265-266.
WriteUpdate(t) ==
  /\ th[t].pc = "m_write"
  /\ th[t].op = "update_locale"
  /\ \E upd \in UpdateArgs : UpdateDoc(t, Touched(upd, now), "updated")
  /\ UNCHANGED <<cache, cache_timestamp, env, hist>>

\* delete_locale, lines 295-303.
WriteDelete(t) ==
  /\ th[t].pc = "m_write"
  /\ th[t].op = "delete_locale"
  /\ \E hard \in BOOLEAN :
       IF hard
       THEN IF ~store_ok THEN Failed(t, "failed") /\ UNCHANGED store
            ELSE /\ store' = [store EXCEPT ![th[t].slug] = NoDoc]
                 /\ Set(t, [th[t] EXCEPT !.pc = "m_inval", !.hard = TRUE,
                                         !.msg = "deleted permanently"])
       ELSE UpdateDoc(t, Touched([is_active |-> FALSE], now), "deactivated")
  /\ UNCHANGED <<cache, cache_timestamp, env, hist>>

\* WriteRestore with an update that leaves is_active out.
WriteRestore_TouchOnly(t) ==
  /\ th[t].pc = "m_write"
  /\ th[t].op = "restore_locale"
  /\ UpdateDoc(t, [updated_at |-> now], "restored")
  /\ UNCHANGED <<cache, cache_timestamp, env, hist>>

\* restore_locale, lines 333-336.
WriteRestore(t) ==
  /\ th[t].pc = "m_write"
  /\ th[t].op = "restore_locale"
  /\ UpdateDoc(t, Touched([is_active |-> TRUE], now), "restored")
  /\ UNCHANGED <<cache, cache_timestamp, env, hist>>

\* self.invalidate_cache() after the write (lines 237, 267, 305, 337), and
\* the success result.
WriteInvalidate(t) ==
  /\ th[t].pc = "m_inval"
  /\ cache_timestamp' = InvalidatedTimestamp
  /\ inval_pending' = "write"
  /\ inval_since' = TRUE
  /\ Set(t, [th[t] EXCEPT !.pc = "done", !.ok = TRUE])
  /\ UNCHANGED <<store, cache, env, last_refresh, admin_failed>>

\* The call returns to its caller.
Return(t) ==
  /\ th[t].pc = "done"
  /\ Set(t, Idle)
  /\ UNCHANGED <<shared, env, hist>>

(* ----------------------------- environment ----------------------------- *)

\* The wall clock advances.
Tick ==
  /\ now < MaxClock
  /\ now' = now + 1
  /\ UNCHANGED <<shared, store_ok, ttl, th, hist>>

\* The store becomes unreachable, or reachable again.
StoreDown ==
  /\ store_ok
  /\ store_ok' = FALSE
  /\ UNCHANGED <<shared, now, ttl, th, hist>>

StoreUp ==
  /\ ~store_ok
  /\ store_ok' = TRUE
  /\ UNCHANGED <<shared, now, ttl, th, hist>>

\* The record scripts/seed_locales.py writes for a slug: the entry of
\* INITIAL_LOCALES with both timestamps set to the time of the run.
SeedRecord(id) ==
  Merge(RawDoc(id, IF id = "la" THEN 2 ELSE 1, 0, TRUE, TRUE),
        [created_at |-> now, updated_at |-> now])

\* scripts/seed_locales.py, run as another process: a slug that has no
\* document gets its seed record.
RemoteSeed ==
  /\ \E id \in DocIds :
       /\ ~Exists(store, id)
       /\ store' = [store EXCEPT ![id] = SeedRecord(id)]
  /\ UNCHANGED <<cache, cache_timestamp, env, th, hist>>

\* delete_locale(slug, hard_delete=True) of another LocaleClient instance on
\* the same collection: the document is removed.
RemoteDelete ==
  /\ \E id \in DocIds :
       /\ Exists(store, id)
       /\ store' = [store EXCEPT ![id] = NoDoc]
  /\ UNCHANGED <<cache, cache_timestamp, env, th, hist>>

(* --------------------------- specifications ---------------------------- *)

\* One step of a call of thread t.
Step(t) ==
  \/ \E op \in ReadOps : BeginRead(t, op)
  \/ Stream(t)
  \/ Reset(t)
  \/ Iter(t)
  \/ Stamp(t)
  \/ ServeAll(t)
  \/ ServeOne(t)
  \/ InvalidateCache(t)
  \/ \E op \in WriteOps, slug \in WriteSlugs : BeginWrite(t, op, slug)
  \/ CheckExists(t)
  \/ WriteCreate(t)
  \/ WriteUpdate(t)
  \/ WriteDelete(t)
  \/ WriteRestore(t)
  \/ WriteInvalidate(t)
  \/ Return(t)

\* A single caller, a clock, and a store that may fail.
Next == Step(1) \/ Tick \/ StoreDown \/ StoreUp

Spec == Init /\ [][Next]_vars

\* One step of a read of thread t.
ReadStep(t) ==
  \/ \E op \in ReadOps : BeginRead(t, op)
  \/ Stream(t)
  \/ Reset(t)
  \/ Iter(t)
  \/ Stamp(t)
  \/ ServeAll(t)
  \/ ServeOne(t)
  \/ Return(t)

\* Two threads reading through one client over a store that does not change
\* and does not fail.
NextReaders == (\E t \in Threads : ReadStep(t)) \/ Tick

SpecReaders == Init /\ [][NextReaders]_vars

\* One step of a get_all_locales call of thread t.
ListStep(t) ==
  \/ BeginRead(t, "get_all_locales")
  \/ Stream(t)
  \/ Reset(t)
  \/ Iter(t)
  \/ Stamp(t)
  \/ ServeAll(t)
  \/ Return(t)

\* Two threads listing through one client while other processes write the
\* collection.
NextConc == (\E t \in Threads : ListStep(t)) \/ RemoteSeed \/ RemoteDelete

SpecConc == Init /\ [][NextConc]_vars

\* One step of a get_all_locales_admin call of thread t.
AdminStep(t) ==
  \/ BeginAdmin(t)
  \/ AdminStream(t)
  \/ AdminIter(t)
  \/ AdminSort(t)

\* LocaleClient.__init__ over a collection with inactive records.
InitAdmin ==
  /\ store \in [DocIds -> UNION {AdminDocs(id) : id \in DocIds}]
  /\ \A id \in DocIds : store[id] \in AdminDocs(id)
  /\ Constructed

\* A single caller using the normal and the admin read path over a store
\* that may fail.
NextAdmin == ReadStep(1) \/ AdminStep(1) \/ Tick \/ StoreDown \/ StoreUp

SpecAdmin == InitAdmin /\ [][NextAdmin]_vars

\* A call of validate_coordinates(lat, lng, "test").
CallValidateCoordinates(t) ==
  /\ th[t].pc = "idle"
  /\ \E lat \in LatValues, lng \in LngValues :
       Set(t, [Idle EXCEPT !.pc = "done", !.op = "validate_coordinates",
                           !.args = <<lat, lng>>,
                           !.result = validate_coordinates(lat, lng, "test")])
  /\ UNCHANGED <<shared, env, hist>>

\* A call of validate_bounds(box, "test").
CallValidateBounds(t) ==
  /\ th[t].pc = "idle"
  /\ \E box \in BoxValues :
       Set(t, [Idle EXCEPT !.pc = "done", !.op = "validate_bounds",
                           !.args = <<box>>,
                           !.result = validate_bounds(box, "test")])
  /\ UNCHANGED <<shared, env, hist>>

\* A call of validate_poi_references(referenced_names, known_pois, "test"):
\* the set of referenced names in any iteration order, over a list of known
\* points of interest.
CallValidatePoiReferences(t) ==
  /\ th[t].pc = "idle"
  /\ \E refs \in NameLists, known \in NameLists :
       LET pois == [i \in 1..Len(known) |-> PointOfInterest(known[i], 0, 0, 0)]
       IN Set(t, [Idle EXCEPT
                    !.pc = "done", !.op = "validate_poi_references",
                    !.args = <<refs, pois>>,
                    !.result = validate_poi_references(refs, pois, "test")])
  /\ UNCHANGED <<shared, env, hist>>

\* Calls of the validation engine by one caller.
NextValidate ==
  \/ CallValidateCoordinates(1)
  \/ CallValidateBounds(1)
  \/ CallValidatePoiReferences(1)
  \/ Return(1)

SpecValidate == Init /\ [][NextValidate]_vars

\* A call of validate_config(config).
CallValidateConfig(t) ==
  /\ th[t].pc = "idle"
  /\ \E rs \in RegionLists, ps \in PoiLists, cs \in ChannelLists :
       LET config == Config(rs, ps, cs)
       IN Set(t, [Idle EXCEPT !.pc = "done", !.op = "validate_config",
                              !.args = <<config>>,
                              !.result = validate_config(config)])
  /\ UNCHANGED <<shared, env, hist>>

\* A client with the default configuration over an empty collection.
InitConfig ==
  /\ store = [id \in DocIds |-> NoDoc]
  /\ Constructed
  /\ ttl = DEFAULT_CACHE_TTL_SECONDS

\* Calls of validate_config by one caller.
NextConfig == CallValidateConfig(1) \/ Return(1)

SpecConfig == InitConfig /\ [][NextConfig]_vars

\* A call of validate_locale(locale).
CallValidateLocale(t) ==
  /\ th[t].pc = "idle"
  /\ \E slug \in SlugValues, name \in NameTexts,
        display_name \in DisplayNameTexts, bounds \in LocaleBoxes,
        center_lat \in CenterLats, center_lng \in CenterLngs,
        mag \in Magnitudes :
       LET locale == Locale(slug, name, display_name, bounds,
                            center_lat, center_lng, mag)
       IN Set(t, [Idle EXCEPT !.pc = "done", !.op = "validate_locale",
                              !.args = <<locale>>,
                              !.result = validate_locale(locale)])
  /\ UNCHANGED <<shared, env, hist>>

\* Calls of validate_locale by one caller.
NextLocale == CallValidateLocale(1) \/ Return(1)

SpecLocale == InitConfig /\ [][NextLocale]_vars

\* LocaleClient.__init__ over a collection of well-formed records.
InitView ==
  /\ store \in [DocIds -> UNION {ViewDocs(id) : id \in DocIds}]
  /\ \A id \in DocIds : store[id] \in ViewDocs(id)
  /\ Constructed

\* A single caller listing the locales of a collection that does not change.
NextView == ListStep(1) \/ Tick

SpecView == InitView /\ [][NextView]_vars

\* send_message(webhook_url, payload): one request, and the response made
\* of what became of it.
CallSendMessage(t) ==
  /\ th[t].pc = "idle"
  /\ \E payload \in Payloads, outcome \in Outcomes :
       Set(t, [Idle EXCEPT
                 !.pc = "done", !.op = "send_message", !.args = <<payload>>,
                 !.posted = <<[payload |-> payload, outcome |-> outcome]>>,
                 !.result = send_message(outcome)])
  /\ UNCHANGED <<shared, env, hist>>

\* send_messages(webhook_url, payloads, rate_limit_ms, stop_on_error) up to
\* its loop (line 134).
BeginSendMessages(t) ==
  /\ th[t].pc = "idle"
  /\ \E payloads \in PayloadLists, stop_on_error \in BOOLEAN :
       Set(t, [Idle EXCEPT !.pc = "batch", !.op = "send_messages",
                           !.args = <<payloads, stop_on_error>>])
  /\ UNCHANGED <<shared, env, hist>>

\* BatchSend that never breaks out of the loop.
BatchSend_NeverStops(t) ==
  /\ th[t].pc = "batch"
  /\ Len(th[t].responses) < Len(th[t].args[1])
  /\ \E outcome \in Outcomes :
       LET payload == th[t].args[1][Len(th[t].responses) + 1]
           response == send_message(outcome)
           responses == Append(th[t].responses, response)
       IN Set(t, [th[t] EXCEPT
                    !.posted = Append(@, [payload |-> payload,
                                          outcome |-> outcome]),
                    !.responses = responses])
  /\ UNCHANGED <<shared, env, hist>>

\* BatchSend that breaks out of the loop at every failure.
BatchSend_AlwaysStops(t) ==
  /\ th[t].pc = "batch"
  /\ Len(th[t].responses) < Len(th[t].args[1])
  /\ \E outcome \in Outcomes :
       LET payload == th[t].args[1][Len(th[t].responses) + 1]
           response == send_message(outcome)
           responses == Append(th[t].responses, response)
       IN Set(t, [th[t] EXCEPT
                    !.posted = Append(@, [payload |-> payload,
                                          outcome |-> outcome]),
                    !.responses = responses,
                    !.pc = IF ~response.success THEN "done" ELSE @,
                    !.result = IF ~response.success THEN responses ELSE @])
  /\ UNCHANGED <<shared, env, hist>>

\* One turn of the loop of send_messages (lines 136-150): the next payload
\* is sent and its response appended; on a failure with stop_on_error the
\* loop is left and the responses are returned.  The pause before every
\* payload but the first changes nothing here.
BatchSend(t) ==
  /\ th[t].pc = "batch"
  /\ Len(th[t].responses) < Len(th[t].args[1])
  /\ \E outcome \in Outcomes :
       LET payload == th[t].args[1][Len(th[t].responses) + 1]
           response == send_message(outcome)
           responses == Append(th[t].responses, response)
           stop == th[t].args[2] /\ ~response.success
       IN Set(t, [th[t] EXCEPT
                    !.posted = Append(@, [payload |-> payload,
                                          outcome |-> outcome]),
                    !.responses = responses,
                    !.pc = IF stop THEN "done" ELSE @,
                    !.result = IF stop THEN responses ELSE @])
  /\ UNCHANGED <<shared, env, hist>>

\* The loop of send_messages is exhausted: the responses are returned (line
\* 152).
BatchReturn(t) ==
  /\ th[t].pc = "batch"
  /\ Len(th[t].responses) = Len(th[t].args[1])
  /\ Set(t, [th[t] EXCEPT !.pc = "done", !.result = th[t].responses])
  /\ UNCHANGED <<shared, env, hist>>

\* SlackClient.__init__ keeps the timeout only; the locale client is as
\* constructed and plays no part.
InitSlack == InitConfig

\* Calls of the Slack client by one caller.
NextSlack ==
  \/ CallSendMessage(1)
  \/ BeginSendMessages(1)
  \/ BatchSend(1)
  \/ BatchReturn(1)
  \/ Return(1)

SpecSlack == InitSlack /\ [][NextSlack]_vars

\* resolve(value) up to the branch it takes (lines 140-150): a value
\* without the placeholder syntax is returned as it is.  The environment and
\* the project of the configuration are those of the call.
BeginResolve(t) ==
  /\ th[t].pc = "idle"
  /\ \E value \in ResolveValues, environ \in Environments,
        project \in BOOLEAN :
       LET call == [Idle EXCEPT !.op = "resolve",
                                !.args = <<value, environ, project>>]
       IN IF ~HasPlaceholderSyntax(value)
          THEN Set(t, [call EXCEPT !.pc = "done", !.result = value])
          ELSE IF IsSecretSpec(VarSpec(value))
          THEN Set(t, [call EXCEPT !.pc = "r_secret"])
          ELSE Set(t, [call EXCEPT !.pc = "r_env"])
  /\ UNCHANGED <<shared, env, hist>>

\* get_secret(secret_name) (lines 67-85) as resolve calls it (lines
\* 152-154): None without a project; otherwise one request, whose failure is
\* caught and gives None; a value that is not empty is returned by resolve.
GetSecret(t) ==
  /\ th[t].pc = "r_secret"
  /\ LET secret_name == SecretName(VarSpec(th[t].args[1]))
         go(secret_value, requests) ==
           IF Truthy(secret_value)
           THEN Set(t, [th[t] EXCEPT !.pc = "done", !.posted = requests,
                                     !.result = secret_value[1]])
           ELSE Set(t, [th[t] EXCEPT !.pc = "r_secret_env",
                                     !.posted = requests])
     IN IF ~th[t].args[3] THEN go(None, th[t].posted)
        ELSE \E outcome \in SecretOutcomes :
               go(IF outcome.kind = "value" THEN Some(outcome.text) ELSE None,
                  Append(th[t].posted,
                         [name |-> secret_name, outcome |-> outcome]))
  /\ UNCHANGED <<shared, env, hist>>

\* resolve, lines 156-167: the environment variable of the sanitized name,
\* and the value itself when it is unset or empty.
SecretEnv(t) ==
  /\ th[t].pc = "r_secret_env"
  /\ LET env_name == EnvName(SecretName(VarSpec(th[t].args[1])))
         env_value == EnvGet(th[t].args[2], env_name)
     IN Set(t, [th[t] EXCEPT
                  !.pc = "done", !.looked_up = Append(@, env_name),
                  !.result = IF Truthy(env_value) THEN env_value[1]
                             ELSE th[t].args[1]])
  /\ UNCHANGED <<shared, env, hist>>

\* EnvLookup taking an empty variable for an unset one.
EnvLookup_EmptyIsUnset(t) ==
  /\ th[t].pc = "r_env"
  /\ LET var_spec == VarSpec(th[t].args[1])
         env_value == EnvGet(th[t].args[2], var_spec)
     IN Set(t, [th[t] EXCEPT
                  !.pc = "done", !.looked_up = Append(@, var_spec),
                  !.result = IF ~Truthy(env_value) THEN th[t].args[1]
                             ELSE env_value[1]])
  /\ UNCHANGED <<shared, env, hist>>

\* resolve, lines 169-175: the environment variable named by the
\* placeholder, and the value itself when it is not set.
EnvLookup(t) ==
  /\ th[t].pc = "r_env"
  /\ LET var_spec == VarSpec(th[t].args[1])
         env_value == EnvGet(th[t].args[2], var_spec)
     IN Set(t, [th[t] EXCEPT
                  !.pc = "done", !.looked_up = Append(@, var_spec),
                  !.result = IF env_value = None THEN th[t].args[1]
                             ELSE env_value[1]])
  /\ UNCHANGED <<shared, env, hist>>

\* SecretManagerClient.__init__ keeps the configuration only; the locale
\* client is as constructed and plays no part.
InitSecrets == InitConfig

\* Calls of resolve by one caller.
NextSecrets ==
  \/ BeginResolve(1)
  \/ GetSecret(1)
  \/ SecretEnv(1)
  \/ EnvLookup(1)
  \/ Return(1)

SpecSecrets == InitSecrets /\ [][NextSecrets]_vars

\* locale_from_dict(locale_to_firestore_dict(locale)) on a Locale.
CallRoundTrip(t) ==
  /\ th[t].pc = "idle"
  /\ \E slug \in DocIds, bounds \in RecordBoxes, center_lat \in {0, 34},
        center_lng \in {-118, 0}, mag \in RecordMagnitudes,
        is_active \in BOOLEAN, is_featured \in BOOLEAN,
        sort_order \in {0, 1}, created_at \in RecordStamps,
        updated_at \in RecordStamps :
       LET locale == FullLocale(slug, "Los Angeles", "Los Angeles, CA",
                                bounds, center_lat, center_lng, mag,
                                is_active, is_featured, sort_order,
                                created_at, updated_at)
       IN Set(t, [Idle EXCEPT
                    !.pc = "done", !.op = "round_trip", !.args = <<locale>>,
                    !.result = LocaleFromDict(LocaleToFirestoreDict(locale))])
  /\ UNCHANGED <<shared, env, hist>>

\* locale_from_dict(data) on a raw record that has none of its optional
\* fields at the default, and omits some of them.
CallLocaleFromDict(t) ==
  /\ th[t].pc = "idle"
  /\ \E slug \in DocIds, bounds \in RecordBoxes, center_lat \in {0, 34},
        center_lng \in {-118, 0}, omitted \in SUBSET OptionalFields :
       LET locale == FullLocale(slug, "Los Angeles", "Los Angeles, CA",
                                bounds, center_lat, center_lng, 30,
                                FALSE, FALSE, 1, ClockStart, ClockStart)
           data == Omit(LocaleToFirestoreDict(locale), omitted)
       IN Set(t, [Idle EXCEPT
                    !.pc = "done", !.op = "locale_from_dict",
                    !.args = <<data>>, !.result = LocaleFromDict(data)])
  /\ UNCHANGED <<shared, env, hist>>

\* Conversions of records by one caller.
NextRecord == CallRoundTrip(1) \/ CallLocaleFromDict(1) \/ Return(1)

SpecRecord == InitConfig /\ [][NextRecord]_vars

\* One step of a mutation of thread t.
MutateStep(t) ==
  \/ \E op \in WriteOps, slug \in WriteSlugs : BeginWrite(t, op, slug)
  \/ CheckExists(t)
  \/ WriteCreate(t)
  \/ WriteUpdate(t)
  \/ WriteDelete(t)
  \/ WriteRestore(t)
  \/ WriteInvalidate(t)
  \/ Return(t)

\* LocaleClient(db) with the default configuration (line 79).
InitDefault == Init /\ ttl = DEFAULT_CACHE_TTL_SECONDS

\* One thread lists through the client while another one mutates the
\* collection through the same client, all within one tick of the clock;
\* the store does not fail.
NextLost == ListStep(1) \/ MutateStep(2)

SpecLost == InitDefault /\ [][NextLost]_vars

\* One step of a create_locale call of thread t.
CreateStep(t) ==
  \/ \E slug \in WriteSlugs : BeginWrite(t, "create_locale", slug)
  \/ CheckExists(t)
  \/ WriteCreate(t)
  \/ WriteInvalidate(t)
  \/ Return(t)

\* Two threads creating locales through one client.
NextCreate == (\E t \in Threads : CreateStep(t)) \/ Tick

SpecCreate == InitDefault /\ [][NextCreate]_vars

\* One thread listing through the client over a store that may fail and
\* recover, while the seed script adds records and the clock advances.
NextRecover == ListStep(1) \/ RemoteSeed \/ StoreDown \/ StoreUp \/ Tick

SpecRecover == InitDefault /\ [][NextRecover]_vars

(* ------------------------------ properties ----------------------------- *)

Range(q) == {q[i] : i \in 1..Len(q)}

\* A raw record the refresh loads: not empty, and it parses.
GoodDoc(data) == DOMAIN data # {} /\ ~ParseRaises(data)

\* The locales of the well-formed records of a fetch, in stream order.
Parsed(docs) ==
  LET good == SelectSeq(docs, GoodDoc)
  IN [i \in 1..Len(good) |-> locale_from_dict(good[i])]

ReadDone(t) == th[t].pc = "done" /\ th[t].op \in ReadOps
ListDone(t) == th[t].pc = "done" /\ th[t].op = "get_all_locales"
WriteDone(t) == th[t].pc = "done" /\ th[t].op \in WriteOps

\* What a read over the dict d returns to the call of thread t.
ResultOver(t, d) ==
  IF th[t].op = "get_all_locales"
  THEN LocaleView(d, th[t].active_only, th[t].featured_only)
  ELSE DictGet(d, th[t].slug)

\* C1: stale-on-error.  When get_all_locales starts on a warm cache and its
\* refresh fails (opening the stream or reading it), the cache afterwards
\* equals the cache before, the call returns the view of that cache, and with
\* no filter the result is not empty.
C1_StaleOnError ==
  \A t \in Threads :
    (ListDone(t) /\ th[t].refresh = "failed" /\ th[t].pre_cache # EmptyDict)
      => /\ cache = th[t].pre_cache
         /\ th[t].result = ResultOver(t, th[t].pre_cache)
         /\ (~th[t].active_only /\ ~th[t].featured_only => th[t].result # << >>)

\* C2: no torn read.  With concurrent readers over a store that does not
\* change, every read returns the view of a complete snapshot: of the empty
\* initial cache or of the full set of well-formed records of the store
\* (stated for the default TTL).
C2_NoTornRead ==
  \A t \in Threads :
    (ReadDone(t) /\ ttl = DEFAULT_CACHE_TTL_SECONDS)
      => th[t].result \in {ResultOver(t, EmptyDict),
                           ResultOver(t, Parsed(StreamDocs(store)))}

\* C3: refreshes do not interleave.  When two concurrent reads have both
\* completed a refresh, the cache holds the well-formed records of exactly
\* one of the two fetches.
C3_NoInterleavedRefresh ==
  (\A t \in Threads : /\ th[t].op \in ReadOps
                      /\ th[t].refresh = "ok"
                      /\ th[t].pc \in {"serve", "done"})
    => \E t \in Threads : Range(cache) = Range(Parsed(th[t].fetched))

\* C4: a successful mutation invalidates.  The first read after a successful
\* create/update/delete/restore attempts a refresh and, when the refresh
\* succeeds, returns the view of the store as the mutation left it.
C4_MutationForcesRefresh ==
  \A t \in Threads :
    (ReadDone(t) /\ th[t].must = "write")
      => /\ th[t].attempts = 1
         /\ (th[t].refresh = "ok"
               => th[t].result = ResultOver(t, Parsed(StreamDocs(store))))

\* C5: a failed mutation leaves the cache untouched.  When a mutation returns
\* (False, message), the cached map and the cache timestamp are what they
\* were when it was called, and the failure is one of the three values.
C5_FailedMutationKeepsCache ==
  \A t \in Threads :
    (WriteDone(t) /\ ~th[t].ok)
      => /\ cache = th[t].pre_cache
         /\ cache_timestamp = th[t].pre_ts
         /\ th[t].msg \in {"exists", "not found", "failed"}

\* A mutation failed on a store error while the cache was warm and fresh.
C5_Witness ==
  \E t \in Threads :
    /\ WriteDone(t) /\ ~th[t].ok /\ th[t].msg = "failed"
    /\ th[t].pre_cache # EmptyDict
    /\ th[t].pre_ts > 0
    /\ ttl = DEFAULT_CACHE_TTL_SECONDS
    /\ IsCacheValid(cache, cache_timestamp, now, ttl)

\* C6 as stated: a read refreshes if and only if the cache is empty or the
\* time since the last successful refresh has reached the TTL (stated for
\* the default TTL).
C6_FreshnessAsStated ==
  \A t \in Threads :
    (ReadDone(t) /\ ttl = DEFAULT_CACHE_TTL_SECONDS)
      => ((th[t].attempts = 1) <=> th[t].due)

\* C6, amended: a read refreshes if and only if the cache is empty or the
\* clock minus the cache timestamp has reached the TTL, the cache timestamp
\* being the time of the last successful refresh, or 0 when there was none or
\* invalidate_cache() ran since; otherwise it makes no store call.
C6_Freshness ==
  \A t \in Threads :
    ReadDone(t)
      => /\ (th[t].attempts = 1) <=> th[t].stale
         /\ th[t].attempts \in {0, 1}
         /\ (th[t].attempts = 0 => cache = th[t].pre_cache)

\* A read within the TTL of a successful refresh that found no record, and
\* it refreshed again.
C6_Witness ==
  \E t \in Threads :
    /\ ReadDone(t) /\ th[t].attempts = 1
    /\ th[t].pre_cache = EmptyDict
    /\ th[t].pre_ts > 0 /\ now - th[t].pre_ts < ttl
    /\ StreamDocs(store) = << >>

\* C7: invalidate_cache() marks the cache stale unconditionally.  The first
\* read after an invalidate_cache() call attempts a refresh, whatever the
\* cache, the TTL and the clock.
C7_InvalidateForcesRefresh ==
  \A t \in Threads :
    (ReadDone(t) /\ th[t].must \in {"once", "twice"}) => th[t].attempts >= 1

\* C8: invalidate_cache() is idempotent.  A second call in a row leaves the
\* cache and its timestamp as the first call left them, and the read that
\* follows attempts exactly one refresh.
C8_InvalidateIdempotent ==
  \A t \in Threads :
    /\ (th[t].pc = "done" /\ th[t].op = "invalidate_cache"
        /\ inval_pending = "twice")
         => (cache = th[t].pre_cache /\ cache_timestamp = th[t].pre_ts)
    /\ (ReadDone(t) /\ th[t].must = "twice") => th[t].attempts = 1

\* The records the refresh of thread t has read from its stream so far.
Consumed(t) == SubSeq(th[t].fetched, 1, Len(th[t].fetched) - Len(th[t].docs))

\* C9, the state part: while the loop runs the cache holds the well-formed
\* records read so far, and after a refresh that completed it holds every
\* well-formed record of the fetch, with the timestamp set by that refresh.
C9_Loaded ==
  \A t \in {1} :
    /\ th[t].pc = "iter" => cache = Parsed(Consumed(t))
    /\ (th[t].op \in ReadOps /\ th[t].refresh = "ok")
         => /\ cache = Parsed(th[t].fetched)
            /\ cache_timestamp = last_refresh
            /\ ~inval_since

\* C9, the step part: with the store reachable, a turn of the loop goes on to
\* the next record whatever the record is, and the end of the loop completes
\* the refresh and sets the timestamp to the clock.
C9_Turn ==
  \A t \in {1} :
    (th[t].pc = "iter" /\ th'[t] # th[t])
      => IF th[t].docs = << >>
         THEN th'[t].refresh = "ok" /\ cache_timestamp' = now
         ELSE store_ok => /\ th'[t].pc = "iter"
                          /\ th'[t].refresh = "none"
                          /\ th'[t].docs = Tail(th[t].docs)

\* C9: per-record isolation during refresh.  A record that fails to parse is
\* skipped, every well-formed record of the fetch is loaded, and the refresh
\* completes, wherever the bad record is in the fetch.
C9_PerRecordIsolation == []C9_Loaded /\ [][C9_Turn]_vars

\* A refresh completed over a fetch whose first record does not parse and
\* whose second does.
C9_Witness ==
  /\ ReadDone(1) /\ th[1].refresh = "ok"
  /\ Len(th[1].fetched) = 2
  /\ DOMAIN th[1].fetched[1] # {}
  /\ ParseRaises(th[1].fetched[1])
  /\ GoodDoc(th[1].fetched[2])
  /\ Len(cache) = 1

\* C10: cache round-trip.  After a successful refresh over well-formed
\* records only, get_all_locales(active_only=False) returns each of them
\* once, sorted by (sort_order, name).
C10_RoundTrip ==
  \A t \in {1} :
    ( /\ ListDone(t) /\ th[t].refresh = "ok"
      /\ ~th[t].active_only /\ ~th[t].featured_only
      /\ \A i \in 1..Len(th[t].fetched) : GoodDoc(th[t].fetched[i]) )
      => LET r == th[t].result IN
         /\ Len(r) = Len(th[t].fetched)
         /\ Range(r) = {locale_from_dict(th[t].fetched[i]) :
                          i \in 1..Len(th[t].fetched)}
         /\ \A i, j \in 1..Len(r) : i < j => ~KeyLess(r[j], r[i])

\* Two well-formed records came back in an order that is not the order of
\* the fetch.
C10_Witness ==
  /\ ListDone(1) /\ th[1].refresh = "ok"
  /\ ~th[1].active_only /\ ~th[1].featured_only
  /\ Len(th[1].fetched) = 2
  /\ \A i \in 1..2 : GoodDoc(th[1].fetched[i])
  /\ Len(th[1].result) = 2
  /\ th[1].result[1].slug = th[1].fetched[2]["slug"]

\* The filter get_all_locales(active_only, featured_only) applies to a locale.
Kept(loc, active_only, featured_only) ==
  /\ (~active_only \/ loc.is_active)
  /\ (~featured_only \/ loc.is_featured)

\* C11: get_all_locales(active_only, featured_only) returns exactly the
\* cached locales that satisfy (not active_only or is_active) and (not
\* featured_only or is_featured), each once, in ascending sort_order with
\* equal sort_order in ascending name.
C11_FilterAndOrder ==
  \A t \in {1} :
    ListDone(t)
      => LET r == th[t].result
             want == {loc \in Range(cache) :
                        Kept(loc, th[t].active_only, th[t].featured_only)}
         IN /\ Range(r) = want
            /\ Len(r) = Cardinality(want)
            /\ \A i, j \in 1..Len(r) :
                 i < j => \/ r[i].sort_order < r[j].sort_order
                          \/ /\ r[i].sort_order = r[j].sort_order
                             /\ r[i].name <= r[j].name

\* get_all_locales(active_only=False, featured_only=True) returned two
\* featured locales, one of them inactive, the one with the lower sort_order
\* first although its name is the greater.
C11_Witness ==
  /\ ListDone(1) /\ ~th[1].active_only /\ th[1].featured_only
  /\ Len(th[1].result) = 2
  /\ \E i \in 1..2 : ~th[1].result[i].is_active
  /\ th[1].result[1].sort_order < th[1].result[2].sort_order
  /\ th[1].result[1].name > th[1].result[2].name

\* C12: get_locale(slug) decides on a refresh as get_all_locales does (it
\* refreshes exactly when the cache is empty or the clock minus the cache
\* timestamp has reached the TTL), makes no other store call, and returns the
\* cached locale whose slug is the argument, character for character,
\* whatever its flags, and absent when there is none.
C12_GetLocale ==
  \A t \in {1} :
    (ReadDone(t) /\ th[t].op = "get_locale")
      => /\ th[t].result = {loc \in Range(cache) : loc.slug = th[t].slug}
         /\ Cardinality(th[t].result) <= 1
         /\ th[t].attempts = (IF th[t].stale THEN 1 ELSE 0)

\* get_locale("LA") over a fresh cache that holds "la": absent, and no store
\* call was made.
C12_Witness ==
  /\ ReadDone(1) /\ th[1].op = "get_locale" /\ th[1].slug = "LA"
  /\ "la" \in DictKeys(cache)
  /\ th[1].attempts = 0
  /\ th[1].result = {}

CreateDone(t) == th[t].pc = "done" /\ th[t].op = "create_locale"

\* C13, the state part: a create_locale call on a slug that has a record
\* leaves the store as it was and fails; a call that succeeds has stored a
\* record whose timestamps are not the caller's; one that fails has stored
\* nothing.
C13_Returned ==
  \A t \in {1} :
    CreateDone(t)
      => /\ Exists(th[t].pre_store, th[t].slug)
              => /\ store = th[t].pre_store
                 /\ ~th[t].ok
                 /\ th[t].msg \in {"exists", "failed"}
         /\ ~th[t].ok => store = th[t].pre_store
         /\ th[t].ok
              => /\ th[t].msg = "created"
                 /\ store[th[t].slug].created_at = store[th[t].slug].updated_at
                 /\ store[th[t].slug].created_at >= ClockStart
                 /\ store[th[t].slug].created_at <= now
                 /\ \A id \in DocIds \ {th[t].slug} :
                      store[id] = th[t].pre_store[id]

\* C13, the step part: with the store reachable, the existence test on a
\* slug that has a record ends the call with the already-exists message; the
\* write stores the fields of the caller's locale with created_at and
\* updated_at both set to the clock, whatever timestamps the locale carried.
C13_Turn ==
  \A t \in {1} :
    /\ ( /\ th[t].pc = "m_get" /\ th[t].op = "create_locale"
          /\ th'[t] # th[t] /\ store_ok /\ Exists(store, th[t].slug) )
         => /\ th'[t].pc = "done" /\ ~th'[t].ok /\ th'[t].msg = "exists"
            /\ store' = store
    /\ ( /\ th[t].pc = "m_write" /\ th[t].op = "create_locale"
          /\ store' # store )
         => LET rec == store'[th[t].slug] IN
            /\ rec.created_at = now /\ rec.updated_at = now
            /\ \E loc \in CreateArgs(th[t].slug) :
                 /\ loc.created_at # now
                 /\ \A k \in DOMAIN rec \ {"created_at", "updated_at"} :
                      rec[k] = loc[k]
                 /\ DOMAIN rec = DOMAIN loc

\* C13: create_locale refuses an existing slug and never overwrites it; a
\* record it creates carries created_at and updated_at set by the client at
\* creation time, overriding the timestamps of the caller's locale.
C13_CreateRefusesExisting == []C13_Returned /\ [][C13_Turn]_vars

\* create_locale was refused on a slug whose record an earlier create_locale
\* had stored, stamped with the time of that call and not with the caller's
\* timestamp.
C13_Witness ==
  /\ CreateDone(1) /\ ~th[1].ok /\ th[1].msg = "exists"
  /\ Has(store[th[1].slug], "created_at")
  /\ store[th[1].slug].created_at >= ClockStart
  /\ store[th[1].slug].created_at # CallerStamp

\* The mutations that need the record to exist.
NeedsRecord == {"update_locale", "delete_locale", "restore_locale"}

\* The document ids that have a document.
Keys(st) == {id \in DocIds : Exists(st, id)}

\* C14, the state part: update_locale, delete_locale and restore_locale on a
\* slug without a record return a failure and leave the store, and so its key
\* set, as it was.
C14_Returned ==
  \A t \in {1} :
    ( /\ th[t].pc = "done" /\ th[t].op \in NeedsRecord
      /\ ~Exists(th[t].pre_store, th[t].slug) )
      => /\ ~th[t].ok
         /\ th[t].msg \in {"not found", "failed"}
         /\ Keys(store) = Keys(th[t].pre_store)
         /\ store = th[t].pre_store

\* C14, the step part: with the store reachable, the existence test on a slug
\* without a record ends the call with the not-found result, writing nothing.
C14_Turn ==
  \A t \in {1} :
    ( /\ th[t].pc = "m_get" /\ th[t].op \in NeedsRecord
      /\ th'[t] # th[t] /\ store_ok /\ ~Exists(store, th[t].slug) )
      => /\ th'[t].pc = "done" /\ ~th'[t].ok /\ th'[t].msg = "not found"
         /\ store' = store

\* C14: update_locale, delete_locale and restore_locale on a slug that has no
\* record return (False, not found) as a value and never create a record.
C14_NotFoundNeverCreates == []C14_Returned /\ [][C14_Turn]_vars

\* update_locale on a slug without a record, in a collection that holds
\* another record, returned not found.
C14_Witness ==
  /\ th[1].pc = "done" /\ th[1].op = "update_locale"
  /\ ~th[1].ok /\ th[1].msg = "not found"
  /\ ~Exists(store, th[1].slug)
  /\ Keys(store) # {}

AdminDone(t) == th[t].pc = "done" /\ th[t].op \in AdminOps

\* C15: the admin read path bypasses the cache.  Every get_all_locales_admin
\* call reads the store, also when the cache is fresh; a call that succeeds
\* returns every record of the store that parses, inactive ones included,
\* each once, sorted by (sort_order, name); the cached map and the cache
\* timestamp are what they were when the call began.
C15_AdminBypassesCache ==
  \A t \in {1} :
    AdminDone(t)
      => /\ th[t].attempts = 1
         /\ cache = th[t].pre_cache
         /\ cache_timestamp = th[t].pre_ts
         /\ th[t].refresh = "ok"
              => LET r == th[t].result
                     want == Range(Parsed(StreamDocs(store)))
                 IN /\ Range(r) = want
                    /\ Len(r) = Cardinality(want)
                    /\ \A i, j \in 1..Len(r) : i < j => ~KeyLess(r[j], r[i])

\* An admin call over a fresh cache read the store, skipped a record that
\* does not parse and returned an inactive locale the normal path does not
\* list.
C15_Witness ==
  /\ AdminDone(1) /\ th[1].refresh = "ok"
  /\ ttl = DEFAULT_CACHE_TTL_SECONDS
  /\ IsCacheValid(cache, cache_timestamp, now, ttl)
  /\ Len(th[1].fetched) > Len(th[1].result)
  /\ \E i \in 1..Len(th[1].result) : ~th[1].result[i].is_active
  /\ LocaleView(cache, TRUE, FALSE) # th[1].result

\* C16: on a store failure get_all_locales_admin returns an empty list as a
\* value and leaves the cache and its timestamp alone; the get_all_locales
\* call that follows refreshes or not by its own rule and returns the view of
\* the cache.
C16_AdminFailureContained ==
  \A t \in {1} :
    /\ (AdminDone(t) /\ th[t].refresh = "failed")
         => /\ th[t].result = << >>
            /\ cache = th[t].pre_cache
            /\ cache_timestamp = th[t].pre_ts
    /\ (ListDone(t) /\ th[t].after_fail)
         => /\ th[t].attempts = (IF th[t].stale THEN 1 ELSE 0)
            /\ th[t].result =
                 LocaleView(cache, th[t].active_only, th[t].featured_only)
            /\ (th[t].attempts = 0 => cache = th[t].pre_cache)

\* With the store still unreachable after an admin call failed on it,
\* get_all_locales served a locale from the fresh cache.
C16_Witness ==
  /\ ListDone(1) /\ th[1].after_fail
  /\ ~store_ok
  /\ th[1].attempts = 0
  /\ th[1].result # << >>

\* C17: store failures in the refresh path are not propagated.  A read whose
\* refresh failed returns a value, and when the cache was cold at the call the
\* value is the empty list for get_all_locales and absent for get_locale.
C17_FailuresContained ==
  \A t \in {1} :
    (ReadDone(t) /\ th[t].refresh = "failed")
      => /\ th[t].attempts = 1
         /\ (th[t].pre_cache = EmptyDict
               => th[t].result = ResultOver(t, EmptyDict))

\* The slugs of the locales a read returned.
ResultSlugs(t) ==
  IF th[t].op = "get_all_locales"
  THEN {th[t].result[i].slug : i \in 1..Len(th[t].result)}
  ELSE {loc.slug : loc \in th[t].result}

\* A record differs from another at most in the named fields.
SameBut(rec, old, fields) ==
  /\ DOMAIN rec \ fields = DOMAIN old \ fields
  /\ \A k \in DOMAIN rec \ fields : rec[k] = old[k]

\* C18, the store: a delete_locale that succeeded has removed the record when
\* it was a hard delete and otherwise kept it with is_active false; a
\* restore_locale that succeeded has kept it with is_active true; a
\* restore_locale on a slug without a record does not succeed.
C18_Writes ==
  \A t \in {1} :
    LET slug == th[t].slug
        old == th[t].pre_store[slug]
    IN /\ (WriteDone(t) /\ th[t].ok /\ th[t].op = "delete_locale")
            => /\ Exists(th[t].pre_store, slug)
               /\ IF th[t].hard
                  THEN ~Exists(store, slug)
                  ELSE /\ Exists(store, slug)
                       /\ Has(store[slug], "is_active")
                       /\ store[slug].is_active = FALSE
                       /\ SameBut(store[slug], old, {"is_active", "updated_at"})
       /\ (WriteDone(t) /\ th[t].ok /\ th[t].op = "restore_locale")
            => /\ Exists(th[t].pre_store, slug)
               /\ Exists(store, slug)
               /\ Has(store[slug], "is_active")
               /\ store[slug].is_active = TRUE
               /\ SameBut(store[slug], old, {"is_active", "updated_at"})
       /\ (WriteDone(t) /\ th[t].op = "restore_locale"
            /\ ~Exists(th[t].pre_store, slug))
            => /\ ~th[t].ok
               /\ th[t].msg \in {"not found", "failed"}
               /\ ~Exists(store, slug)

\* C18, reads after a successful refresh: a well-formed record with is_active
\* false is not in get_all_locales() and is in
\* get_all_locales(active_only=False); one with is_active true is in
\* get_all_locales().
C18_ReadsOfKept(t) ==
  (ListDone(t) /\ th[t].refresh = "ok")
    => \A id \in DocIds :
         GoodDoc(store[id])
           => IF Get(store[id], "is_active", TRUE)
              THEN (th[t].active_only /\ ~th[t].featured_only)
                     => id \in ResultSlugs(t)
              ELSE /\ th[t].active_only => id \notin ResultSlugs(t)
                   /\ (~th[t].active_only /\ ~th[t].featured_only)
                        => id \in ResultSlugs(t)

\* A slug whose record is gone is not in what the read returned.
C18_GoneIsAbsent(t) ==
  \A id \in DocIds : ~Exists(store, id) => id \notin ResultSlugs(t)

\* C18 as stated: the store transitions, the reads after a soft delete or a
\* restore and a successful refresh, and after a hard delete the locale is
\* absent from every read (stated for the default TTL).
C18_LifecycleAsStated ==
  /\ C18_Writes
  /\ \A t \in {1} :
       /\ C18_ReadsOfKept(t)
       /\ (ReadDone(t) /\ ttl = DEFAULT_CACHE_TTL_SECONDS)
            => C18_GoneIsAbsent(t)

\* C18, amended: the store transitions as stated; after a soft delete and a
\* successful refresh the locale is absent from get_all_locales() and present
\* in get_all_locales(active_only=False); after a restore and a successful
\* refresh it is present in get_all_locales(); after a hard delete and a
\* successful refresh it is absent from every read, and restore_locale fails.
C18_Lifecycle ==
  /\ C18_Writes
  /\ \A t \in {1} :
       /\ C18_ReadsOfKept(t)
       /\ (ReadDone(t) /\ th[t].refresh = "ok") => C18_GoneIsAbsent(t)

\* The first read after a soft delete refreshed and, asked for the inactive
\* ones too, returned the locale the client had deactivated.
C18_Witness ==
  /\ ListDone(1) /\ th[1].refresh = "ok" /\ th[1].must = "write"
  /\ ~th[1].active_only /\ ~th[1].featured_only
  /\ GoodDoc(store["la"])
  /\ ~Get(store["la"], "is_active", TRUE)
  /\ Get(store["la"], "updated_at", NoneStamp) >= ClockStart
  /\ "la" \in ResultSlugs(1)

\* The findings of a list whose message is one of the given ones.
Count(findings, messages) ==
  Cardinality({i \in 1..Len(findings) : findings[i].message \in messages})

ValidateDone(t, op) == th[t].pc = "done" /\ th[t].op = op

\* C19: validate_coordinates returns a latitude error exactly when the
\* latitude is below -90 or above 90 and, independently, a longitude error
\* exactly when the longitude is below -180 or above 180, and nothing else;
\* -90, 90, -180 and 180 give no error.
C19_Coordinates ==
  \A t \in {1} :
    ValidateDone(t, "validate_coordinates")
      => LET lat == th[t].args[1]
             lng == th[t].args[2]
             r == th[t].result
             lat_out == ~(-90 <= lat /\ lat <= 90)
             lng_out == ~(-180 <= lng /\ lng <= 180)
         IN /\ Count(r, {"Latitude out of range"}) = (IF lat_out THEN 1 ELSE 0)
            /\ Count(r, {"Longitude out of range"}) = (IF lng_out THEN 1 ELSE 0)
            /\ Len(r) = (IF lat_out THEN 1 ELSE 0) + (IF lng_out THEN 1 ELSE 0)
            /\ \A i \in 1..Len(r) : r[i].severity = "error"
            /\ (lat \in {-90, 90} /\ lng \in {-180, 180}) => r = << >>

\* validate_coordinates(90, 181): the boundary latitude passes and the
\* longitude beyond its boundary is the one error.
C19_Witness ==
  /\ ValidateDone(1, "validate_coordinates")
  /\ th[1].args = <<90, 181>>
  /\ Len(th[1].result) = 1
  /\ th[1].result[1].message = "Longitude out of range"

\* One value of a box lies in its legal interval.
InRange(v, lo, hi) == lo <= v /\ v <= hi

\* C20: validate_bounds returns no error exactly when the four coordinates
\* are in range and min < max on each axis; every error that applies is in
\* the list, so a box with all four coordinates out of range gets at least
\* four.
C20_Bounds ==
  \A t \in {1} :
    ValidateDone(t, "validate_bounds")
      => LET box == th[t].args[1]
             r == th[t].result
             out == Cardinality(
                      {k \in {"min_latitude", "max_latitude"} :
                         ~InRange(box[k], -90, 90)}
                      \cup {k \in {"min_longitude", "max_longitude"} :
                              ~InRange(box[k], -180, 180)})
             lat_order == box.min_latitude >= box.max_latitude
             lng_order == box.min_longitude >= box.max_longitude
         IN /\ (r = << >>) <=> (out = 0 /\ ~lat_order /\ ~lng_order)
            /\ Count(r, {"Latitude out of range", "Longitude out of range"}) = out
            /\ Count(r, {"min_latitude >= max_latitude"})
                 = (IF lat_order THEN 1 ELSE 0)
            /\ Count(r, {"min_longitude >= max_longitude"})
                 = (IF lng_order THEN 1 ELSE 0)
            /\ (out = 4 => Len(r) >= 4)

\* validate_bounds on a box with its four coordinates out of range and
\* min_latitude = max_latitude: four coordinate errors and the latitude
\* order error.
C20_Witness ==
  /\ ValidateDone(1, "validate_bounds")
  /\ th[1].args[1] = BoundingBox(91, 91, -181, 181)
  /\ Len(th[1].result) = 5

\* The messages a finding about a referenced name can carry over the known
\* names.
MessagesAbout(name, names) ==
  {NotFoundMessage(name)}
    \cup {DidYouMeanMessage(name, names[i]) : i \in 1..Len(names)}

\* C21: validate_poi_references returns exactly one finding for every
\* referenced name that is not a known name, whatever the number of
\* candidates, none for a name that is known, all of severity warning, and
\* nothing for an empty reference set.
C21_PoiReferences ==
  \A t \in {1} :
    ValidateDone(t, "validate_poi_references")
      => LET refs == th[t].args[1]
             names == PoiNames(th[t].args[2])
             r == th[t].result
             absent == Range(refs) \ Range(names)
         IN /\ \A name \in Range(refs) :
                 Count(r, MessagesAbout(name, names))
                   = (IF name \in absent THEN 1 ELSE 0)
            /\ Len(r) = Cardinality(absent)
            /\ \A i \in 1..Len(r) : r[i].severity = "warning"
            /\ (refs = << >> => r = << >>)

\* A known name and a name within one edit of both known names were
\* referenced: one finding, about the unknown name.
C21_Witness ==
  /\ ValidateDone(1, "validate_poi_references")
  /\ th[1].args[1] = <<<<"b">>, <<"a">>>>
  /\ PoiNames(th[1].args[2]) = <<<<"b">>, <<"a", "b">>>>
  /\ Len(th[1].result) = 1

\* One name is a one-character typo of another: one substitution, one
\* insertion or one deletion.
Without(name, i) == SubSeq(name, 1, i - 1) \o SubSeq(name, i + 1, Len(name))

OneEdit(a, b) ==
  \/ /\ Len(a) = Len(b)
     /\ Cardinality({i \in 1..Len(a) : a[i] # b[i]}) = 1
  \/ \E i \in 1..Len(b) : Without(b, i) = a
  \/ \E i \in 1..Len(a) : Without(a, i) = b

\* C22: a referenced name that is a one-character typo of a known name gets
\* the "Did you mean" warning naming a known name it is a typo of: the first
\* such name in the order of the known list.
C22_DidYouMean ==
  \A t \in {1} :
    ValidateDone(t, "validate_poi_references")
      => LET refs == th[t].args[1]
             names == PoiNames(th[t].args[2])
             r == th[t].result
             typos(name) == {i \in 1..Len(names) : OneEdit(name, names[i])}
         IN \A name \in Range(refs) \ Range(names) :
              typos(name) # {}
                => LET first == CHOOSE i \in typos(name) :
                                  \A j \in typos(name) : i <= j
                   IN /\ Count(r, {DidYouMeanMessage(name, names[first])}) = 1
                      /\ Count(r, MessagesAbout(name, names)) = 1

\* "a" was referenced over the known names "ab" and "b", both one edit away:
\* the suggestion names "ab", the first of them.
C22_Witness ==
  /\ ValidateDone(1, "validate_poi_references")
  /\ th[1].args[1] = <<<<"a">>>>
  /\ PoiNames(th[1].args[2]) = <<<<"a", "b">>, <<"b">>>>
  /\ th[1].result = <<Finding("test", "warning",
                               "POI 'a' not found. Did you mean 'ab'?")>>

\* The findings of a list with a severity, in the list's order.
OfSeverity(findings, severity) ==
  LET RECURSIVE keep(_)
      keep(i) == IF i > Len(findings) THEN << >>
                 ELSE (IF findings[i].severity = severity
                       THEN <<findings[i]>> ELSE << >>) \o keep(i + 1)
  IN keep(1)

\* C23: the result of validate_config is valid exactly when none of its
\* findings has severity "error"; warnings is the findings of severity
\* "warning" and critical_errors those of severity "error", each in the
\* order of the list, and together they are all the findings.
C23_ValidIffNoError ==
  \A t \in {1} :
    ValidateDone(t, "validate_config")
      => LET r == th[t].result
         IN /\ r.valid = (Cardinality({i \in 1..Len(r.errors) :
                                          r.errors[i].severity = "error"})
                           = 0)
            /\ r.warnings = OfSeverity(r.errors, "warning")
            /\ r.critical_errors = OfSeverity(r.errors, "error")
            /\ Len(r.warnings) + Len(r.critical_errors) = Len(r.errors)

\* A configuration with two warnings and no error was validated: it is
\* valid.
C23_Witness ==
  /\ ValidateDone(1, "validate_config")
  /\ th[1].result.valid
  /\ Len(th[1].result.warnings) = 2
  /\ th[1].result.critical_errors = << >>

\* A region or a point of interest of the configuration has a coordinate out
\* of range.
BadCoordinates(config) ==
  \/ \E i \in 1..Len(config.monitoring_regions) :
       LET b == config.monitoring_regions[i].bounds
       IN ~(/\ InRange(b.min_latitude, -90, 90)
            /\ InRange(b.max_latitude, -90, 90)
            /\ InRange(b.min_longitude, -180, 180)
            /\ InRange(b.max_longitude, -180, 180))
  \/ \E i \in 1..Len(config.points_of_interest) :
       LET p == config.points_of_interest[i]
       IN ~(InRange(p.latitude, -90, 90) /\ InRange(p.longitude, -180, 180))

NegativeRadius(config) ==
  \E i \in 1..Len(config.points_of_interest) :
    config.points_of_interest[i].radius < 0

MinAboveMax(config) ==
  \E i \in 1..Len(config.alert_channels) :
    LET rule == config.alert_channels[i].rules
    IN Has(rule, "max_magnitude") /\ rule.min_magnitude > rule.max_magnitude

\* C24: validate_config returns valid = FALSE whenever a region or a point of
\* interest has a coordinate out of range, whenever a point of interest has a
\* negative radius, then with a critical error about the radius, and
\* whenever a rule has min_magnitude > max_magnitude, then with a critical
\* error about min_magnitude, whatever else the configuration holds.
C24_StructuralErrorsBlock ==
  \A t \in {1} :
    ValidateDone(t, "validate_config")
      => LET config == th[t].args[1]
             r == th[t].result
         IN /\ (BadCoordinates(config) => ~r.valid)
            /\ (NegativeRadius(config)
                  => ~r.valid /\ Count(r.critical_errors, {RadiusMessage}) > 0)
            /\ (MinAboveMax(config)
                  => ~r.valid /\ Count(r.critical_errors, {MinMaxMessage}) > 0)

\* A configuration with a good region, a good point of interest before one
\* with a negative radius, and a good channel before one whose minimum
\* exceeds its maximum was validated.
C24_Witness ==
  /\ ValidateDone(1, "validate_config")
  /\ LET config == th[1].args[1]
     IN /\ ~BadCoordinates(config)
        /\ Len(config.monitoring_regions) = 1
        /\ Len(config.points_of_interest) = 2
        /\ config.points_of_interest[1].radius >= 0
        /\ config.points_of_interest[2].radius < 0
        /\ Len(config.alert_channels) = 2
        /\ ~Has(config.alert_channels[1].rules, "max_magnitude")
        /\ Has(config.alert_channels[2].rules, "max_magnitude")
        /\ config.alert_channels[2].rules.min_magnitude = 5
  /\ ~th[1].result.valid
  /\ Len(th[1].result.critical_errors) = 2

\* No region, point of interest or rule of the configuration has a
\* structural problem.
Sound(config) ==
  /\ ~BadCoordinates(config)
  /\ ~NegativeRadius(config)
  /\ ~MinAboveMax(config)
  /\ \A i \in 1..Len(config.monitoring_regions) :
       LET b == config.monitoring_regions[i].bounds
       IN /\ b.min_latitude < b.max_latitude
          /\ b.min_longitude < b.max_longitude
  /\ \A i \in 1..Len(config.alert_channels) :
       LET rule == config.alert_channels[i].rules
       IN /\ InRange(rule.min_magnitude, 0, 10)
          /\ Has(rule, "max_magnitude") => InRange(rule.max_magnitude, 0, 10)

\* C25: validate_config of the empty configuration is valid with the warning
\* that no alert channels are configured; every configuration without
\* channels gets that warning, never as a critical error, and is valid when
\* it has no structural problem.
C25_NoChannelsWarns ==
  \A t \in {1} :
    ValidateDone(t, "validate_config")
      => LET config == th[t].args[1]
             r == th[t].result
         IN /\ config = Config(<< >>, << >>, << >>)
                 => r.valid /\ Count(r.warnings, {NoChannelsMessage}) >= 1
            /\ config.alert_channels = << >>
                 => /\ Count(r.warnings, {NoChannelsMessage}) >= 1
                    /\ Count(r.critical_errors, {NoChannelsMessage}) = 0
                    /\ (Sound(config) => r.valid)

\* A configuration with a good region, a good point of interest and no
\* channel was validated: valid, with the one warning.
C25_Witness ==
  /\ ValidateDone(1, "validate_config")
  /\ Len(th[1].args[1].monitoring_regions) = 1
  /\ Len(th[1].args[1].points_of_interest) = 1
  /\ th[1].args[1].alert_channels = << >>
  /\ th[1].result.valid
  /\ th[1].result.errors = <<Finding("config", "warning", NoChannelsMessage)>>

\* The delivery targets that are unresolved placeholders: ${secret:NAME} and
\* ${VAR_NAME}.
Unresolved ==
  {<<"${", "secret:", "unresolved", "}">>, <<"${", "VAR_NAME", "}">>}

\* C26: a channel whose delivery target is an unresolved placeholder makes
\* validate_config emit a warning about the placeholder and no critical
\* error about it; a configuration with such a channel and no structural
\* problem is valid.
C26_PlaceholderWarns ==
  \A t \in {1} :
    ValidateDone(t, "validate_config")
      => LET config == th[t].args[1]
             r == th[t].result
             held == {i \in 1..Len(config.alert_channels) :
                       config.alert_channels[i].webhook_url \in Unresolved}
         IN /\ Count(r.warnings, {PlaceholderMessage}) = Cardinality(held)
            /\ Count(r.critical_errors, {PlaceholderMessage}) = 0
            /\ (held # {} /\ Sound(config) => r.valid)

\* A configuration whose two channels hold the two placeholder forms and
\* that has no other problem was validated: valid, with two warnings.
C26_Witness ==
  /\ ValidateDone(1, "validate_config")
  /\ Len(th[1].args[1].alert_channels) = 2
  /\ th[1].args[1].alert_channels[1].webhook_url
       = <<"${", "secret:", "unresolved", "}">>
  /\ th[1].args[1].alert_channels[2].webhook_url = <<"${", "VAR_NAME", "}">>
  /\ Sound(th[1].args[1])
  /\ th[1].result.valid
  /\ Len(th[1].result.errors) = 2
  /\ \A i \in 1..2 : th[1].result.errors[i].message = PlaceholderMessage

\* The characters of a text.
Chars(text) == {text[i].ch : i \in 1..Len(text)}

\* What a locale must satisfy besides the condition on its slug.
RestOk(locale) ==
  LET b == locale.bounds
  IN /\ InRange(StrLen(locale.name), 1, 100)
     /\ InRange(StrLen(locale.display_name), 1, 200)
     /\ InRange(b.min_latitude, -90, 90) /\ InRange(b.max_latitude, -90, 90)
     /\ InRange(b.min_longitude, -180, 180)
     /\ InRange(b.max_longitude, -180, 180)
     /\ b.min_latitude < b.max_latitude /\ b.min_longitude < b.max_longitude
     /\ InRange(locale.center_lat, b.min_latitude, b.max_latitude)
     /\ InRange(locale.center_lng, b.min_longitude, b.max_longitude)
     /\ InRange(locale.min_magnitude, 0, 10)

\* The slug is not empty, made only of alphanumerics, hyphens and
\* underscores, and at most 50 characters long.
SlugOk(slug) ==
  /\ InRange(StrLen(slug), 1, 50)
  /\ Chars(slug) \subseteq {"a", "7", "-", "_"}

CenterOutside(locale) ==
  ~(/\ InRange(locale.center_lat, locale.bounds.min_latitude,
                locale.bounds.max_latitude)
    /\ InRange(locale.center_lng, locale.bounds.min_longitude,
                locale.bounds.max_longitude))

\* C27 as stated: validate_locale returns the empty list exactly when the
\* slug is not empty, made only of alphanumerics, hyphens and underscores and
\* at most 50 characters long, and the name, display name, bounds, center
\* and minimum magnitude are as required; a center outside the bounds gets
\* "Center point must be within bounds".
C27_ValidateLocaleAsStated ==
  \A t \in {1} :
    ValidateDone(t, "validate_locale")
      => LET locale == th[t].args[1]
         IN /\ (th[t].result = << >>) = (SlugOk(locale.slug) /\ RestOk(locale))
            /\ CenterOutside(locale)
                 => "Center point must be within bounds"
                      \in Range(th[t].result)

\* C27: validate_locale returns the empty list exactly when the slug is made
\* only of alphanumerics, hyphens and underscores with at least one
\* alphanumeric among them and is at most 50 characters long, and the name,
\* display name, bounds, center and minimum magnitude are as required; a
\* center outside the bounds gets "Center point must be within bounds".
C27_ValidateLocale ==
  \A t \in {1} :
    ValidateDone(t, "validate_locale")
      => LET locale == th[t].args[1]
         IN /\ (th[t].result = << >>)
                 = (/\ SlugOk(locale.slug)
                    /\ Chars(locale.slug) \cap {"a", "7"} # {}
                    /\ RestOk(locale))
            /\ CenterOutside(locale)
                 => "Center point must be within bounds"
                      \in Range(th[t].result)

\* A locale whose slug is fifty hyphens and that is otherwise as required
\* was validated: the one error is about the slug.
C27_Witness ==
  /\ ValidateDone(1, "validate_locale")
  /\ th[1].args[1].slug = <<Run("-", 50)>>
  /\ RestOk(th[1].args[1])
  /\ th[1].result
       = <<"Slug must be alphanumeric (hyphens and underscores allowed)">>

\* A call of send_messages has returned, with or without stop_on_error.
BatchDone(t, stop_on_error) ==
  /\ ValidateDone(t, "send_messages")
  /\ th[t].args[2] = stop_on_error

\* What became of a request was a failure: anything but a response with
\* status 200.
FailedSend(outcome) ==
  ~(outcome.kind = "response" /\ outcome.status_code = 200)

\* The payloads of the requests made, in the order they were made.
PostedPayloads(t) ==
  [i \in 1..Len(th[t].posted) |-> th[t].posted[i].payload]

\* C28: with stop_on_error, send_messages sends the payloads in order up to
\* and including the first whose send fails and no payload after it; it
\* returns one response for each payload sent, the last of them that
\* failure, and one for every payload when no send fails.
C28_StopOnError ==
  \A t \in {1} :
    BatchDone(t, TRUE)
      => LET payloads == th[t].args[1]
             posted == th[t].posted
             r == th[t].result
             failures == {i \in 1..Len(posted) : FailedSend(posted[i].outcome)}
         IN /\ PostedPayloads(t) = SubSeq(payloads, 1, Len(posted))
            /\ Len(r) = Len(posted)
            /\ failures = {} => Len(r) = Len(payloads)
            /\ failures # {}
                 => /\ failures = {Len(posted)}
                    /\ ~r[Len(r)].success
                    /\ \A i \in 1..(Len(r) - 1) : r[i].success

\* Three payloads were given and the send of the second failed: two
\* requests, two responses.
C28_Witness ==
  /\ BatchDone(1, TRUE)
  /\ Len(th[1].args[1]) = 3
  /\ Len(th[1].posted) = 2
  /\ Len(th[1].result) = 2
  /\ th[1].result[1].success
  /\ ~th[1].result[2].success

\* C29: without stop_on_error, send_messages sends every payload once, in
\* the order of the list, whatever became of the earlier ones, and returns
\* one response for each payload, the i-th for the i-th payload; for the
\* empty list it sends nothing and returns the empty list.
C29_ContinueOnError ==
  \A t \in {1} :
    BatchDone(t, FALSE)
      => LET payloads == th[t].args[1]
             posted == th[t].posted
             r == th[t].result
         IN /\ PostedPayloads(t) = payloads
            /\ Len(r) = Len(payloads)
            /\ \A i \in 1..Len(r) :
                 /\ r[i].success = ~FailedSend(posted[i].outcome)
                 /\ r[i].status_code = posted[i].outcome.status_code
            /\ (payloads = << >> => r = << >> /\ posted = << >>)

\* Three payloads were given, the send of the first timed out and the send
\* of the second got a 500: three requests, three responses, the last a
\* success.
C29_Witness ==
  /\ BatchDone(1, FALSE)
  /\ Len(th[1].args[1]) = 3
  /\ Len(th[1].posted) = 3
  /\ th[1].posted[1].outcome = TimedOut
  /\ th[1].posted[2].outcome.status_code = 500
  /\ ~th[1].result[1].success
  /\ ~th[1].result[2].success
  /\ th[1].result[3].success

\* C30: send_message returns a response whatever became of the request:
\* success exactly when the status is 200, then with no error; for another
\* status, that status and the body as the error; for a timeout or another
\* request failure, status 0 and an error that is not None.
C30_SendMessage ==
  \A t \in {1} :
    ValidateDone(t, "send_message")
      => LET outcome == th[t].posted[1].outcome
             r == th[t].result
         IN /\ Len(th[t].posted) = 1
            /\ r.success
                 = (outcome.kind = "response" /\ outcome.status_code = 200)
            /\ (r.success => r.error = << >>)
            /\ (outcome.kind = "response" /\ outcome.status_code # 200
                  => /\ ~r.success
                     /\ r.status_code = outcome.status_code
                     /\ r.error = <<outcome.text>>)
            /\ (outcome.kind # "response"
                  => ~r.success /\ r.status_code = 0 /\ r.error # << >>)

\* The request got a 201: a failure carrying the status and the body.
C30_Witness ==
  /\ ValidateDone(1, "send_message")
  /\ th[1].posted[1].outcome = Responded(201, "ok")
  /\ th[1].result = SlackResponse(FALSE, 201, <<"ok">>)

\* A step of invalidate_cache(): the call itself, or the call a mutation
\* makes after its write.
InvalidateTurn(t) ==
  \/ th[t].pc = "idle" /\ th'[t].pc = "done" /\ th'[t].op = "invalidate_cache"
  \/ th[t].pc = "m_inval" /\ th'[t].pc = "done"

\* C32, the step part: invalidate_cache() sets the freshness timestamp to
\* zero and changes nothing else of the client or the store; it runs the
\* same with the store unreachable, and no refresh is part of it.
C32_Turn ==
  \A t \in {1} :
    InvalidateTurn(t)
      => /\ cache_timestamp' = 0
         /\ cache' = cache
         /\ store' = store
         /\ last_refresh' = last_refresh
         /\ th'[t].attempts = th[t].attempts

\* invalidate_cache() is enabled whatever the store does.
C32_NoStoreCall ==
  \A t \in {1} : th[t].pc = "idle" => ENABLED InvalidateCache(t)

\* C32: invalidate_cache() is a signal only: no store call, the cached map
\* unchanged, the freshness timestamp reset; a refresh is made by a read
\* that comes later, never by the invalidation.
C32_InvalidateIsSignal == [][C32_Turn]_vars /\ []C32_NoStoreCall

\* invalidate_cache() returned with the store unreachable and a warm cache:
\* the records are still cached, the timestamp is zero.
C32_Witness ==
  /\ ValidateDone(1, "invalidate_cache")
  /\ ~store_ok
  /\ cache # EmptyDict
  /\ cache = th[1].pre_cache
  /\ th[1].pre_ts > 0
  /\ cache_timestamp = 0

\* The placeholders ${secret:NAME} among the values, with the name of the
\* environment variable that stands in for the secret, and the placeholders
\* ${VAR_NAME}, with the name of their variable.
SecretPlaceholders ==
  (<<"${", "secret:", "a", "-", "b", "}">> :> <<"A", "_", "B">>)
    @@ (<<"${", "secret:", "A", "_", "B", "}">> :> <<"A", "_", "B">>)

EnvPlaceholders ==
  (<<"${", "A", "_", "B", "}">> :> <<"A", "_", "B">>)
    @@ (<<"${", "a", "-", "b", "}">> :> <<"a", "-", "b">>)
    @@ (<<"${", "}">> :> << >>)

ResolveDone(t) == ValidateDone(t, "resolve")

\* The secret the Secret Manager returned to the call, None when the fetch
\* failed or there was none.
Fetched(t) ==
  IF th[t].posted # << >> /\ th[t].posted[1].outcome.kind = "value"
  THEN <<th[t].posted[1].outcome.text>> ELSE << >>

\* The environment variable of a name as the call found it.
Variable(t, name) ==
  IF name \in DOMAIN th[t].args[2] THEN th[t].args[2][name] ELSE << >>

\* C31 as stated: resolve returns its input when it is not of the form
\* ${...}, and when the placeholder cannot be resolved: for ${secret:NAME},
\* the fetch fails or returns nothing and the environment variable is not
\* set; for ${VAR_NAME}, the variable is not set.  Otherwise it returns the
\* resolved value.  A failure of the Secret Manager never raises.
C31_ResolveAsStated ==
  \A t \in {1} :
    ResolveDone(t)
      => LET value == th[t].args[1]
             r == th[t].result
         IN /\ value \notin DOMAIN SecretPlaceholders \cup DOMAIN EnvPlaceholders
                 => r = value
            /\ value \in DOMAIN SecretPlaceholders
                 => LET secret == Fetched(t)
                        var == Variable(t, SecretPlaceholders[value])
                    IN r = IF secret # << >> /\ secret[1] # << >>
                           THEN secret[1]
                           ELSE IF var # << >> THEN var[1] ELSE value
            /\ value \in DOMAIN EnvPlaceholders
                 => LET var == Variable(t, EnvPlaceholders[value])
                    IN r = IF var # << >> THEN var[1] ELSE value

\* C31: resolve returns its input when it is not of the form ${...}, and
\* when the placeholder cannot be resolved: for ${secret:NAME}, the fetch
\* fails or returns nothing and the environment variable is not set or is
\* empty; for ${VAR_NAME}, the variable is not set.  Otherwise it returns
\* the resolved value.  A failure of the Secret Manager never raises.
C31_Resolve ==
  \A t \in {1} :
    ResolveDone(t)
      => LET value == th[t].args[1]
             r == th[t].result
         IN /\ value \notin DOMAIN SecretPlaceholders \cup DOMAIN EnvPlaceholders
                 => r = value
            /\ value \in DOMAIN SecretPlaceholders
                 => LET secret == Fetched(t)
                        var == Variable(t, SecretPlaceholders[value])
                    IN r = IF secret # << >> /\ secret[1] # << >>
                           THEN secret[1]
                           ELSE IF var # << >> /\ var[1] # << >>
                           THEN var[1] ELSE value
            /\ value \in DOMAIN EnvPlaceholders
                 => LET var == Variable(t, EnvPlaceholders[value])
                    IN r = IF var # << >> THEN var[1] ELSE value

\* ${secret:a-b} was resolved with the request to the Secret Manager raising
\* and A_B set to the empty text: the placeholder came back.
C31_Witness ==
  /\ ResolveDone(1)
  /\ th[1].args[1] = <<"${", "secret:", "a", "-", "b", "}">>
  /\ Len(th[1].posted) = 1
  /\ th[1].posted[1].outcome.kind = "raises"
  /\ Variable(1, <<"A", "_", "B">>) = <<<< >>>>
  /\ th[1].result = th[1].args[1]

\* C37: for ${secret:NAME}, a secret that is not empty is the result and
\* the environment is not read; the environment variable, named NAME in
\* upper case with underscores for hyphens, is read only when the fetch
\* gave nothing, and the placeholder is the result only when both gave
\* nothing.  For ${VAR_NAME} no request goes to the Secret Manager.
C37_Precedence ==
  \A t \in {1} :
    ResolveDone(t)
      => LET value == th[t].args[1]
             r == th[t].result
             secret == Fetched(t)
             got == secret # << >> /\ secret[1] # << >>
         IN /\ value \in DOMAIN SecretPlaceholders
                 => LET var == Variable(t, SecretPlaceholders[value])
                    IN /\ Len(th[t].posted) <= 1
                       /\ got => r = secret[1] /\ th[t].looked_up = << >>
                       /\ ~got => th[t].looked_up = <<SecretPlaceholders[value]>>
                       /\ r = value => ~got /\ (var = << >> \/ var[1] = << >>)
                       /\ (~got /\ var # << >> /\ var[1] # << >>) => r = var[1]
            /\ value \notin DOMAIN SecretPlaceholders => th[t].posted = << >>

\* ${secret:a-b} was resolved with the Secret Manager returning the secret
\* and both A_B and a-b set: the secret is the result, no variable was read.
C37_Witness ==
  /\ ResolveDone(1)
  /\ th[1].args[1] = <<"${", "secret:", "a", "-", "b", "}">>
  /\ Variable(1, <<"A", "_", "B">>) = <<<<"from A_B">>>>
  /\ Variable(1, <<"a", "-", "b">>) = <<<<"from a-b">>>>
  /\ th[1].result = <<"s3cret">>
  /\ th[1].looked_up = << >>

\* ${secret:a-b} was resolved with an empty secret and both A_B and a-b
\* set: the result is the value of A_B.
C37_WitnessFallback ==
  /\ ResolveDone(1)
  /\ th[1].args[1] = <<"${", "secret:", "a", "-", "b", "}">>
  /\ Fetched(1) = <<<< >>>>
  /\ Variable(1, <<"a", "-", "b">>) = <<<<"from a-b">>>>
  /\ th[1].result = <<"from A_B">>

\* The fields of a Locale.
LocaleFields ==
  {"slug", "name", "display_name", "bounds", "center_lat", "center_lng",
   "min_magnitude", "is_active", "is_featured", "sort_order", "created_at",
   "updated_at"}

\* C36: locale_from_dict(locale_to_firestore_dict(l)) has the twelve fields
\* of l with the values of l; a raw record that omits optional fields gives
\* min_magnitude 2.5, is_active and is_featured true and sort_order 0 for
\* those it omits, and the values of the record for the others.
C36_RecordRoundTrip ==
  \A t \in {1} :
    /\ ValidateDone(t, "round_trip")
         => /\ DOMAIN th[t].result = LocaleFields
            /\ \A f \in LocaleFields : th[t].result[f] = th[t].args[1][f]
    /\ ValidateDone(t, "locale_from_dict")
         => LET data == th[t].args[1]
                r == th[t].result
                given(f, default) == IF f \in DOMAIN data THEN data[f]
                                     ELSE default
            IN /\ r.min_magnitude = given("min_magnitude", 25)
               /\ r.is_active = given("is_active", TRUE)
               /\ r.is_featured = given("is_featured", TRUE)
               /\ r.sort_order = given("sort_order", 0)
               /\ r.slug = data.slug /\ r.name = data.name
               /\ r.display_name = data.display_name
               /\ r.center_lat = data.center.lat
               /\ r.center_lng = data.center.lng
               /\ r.bounds.min_latitude = data.bounds.min_latitude
               /\ r.bounds.max_longitude = data.bounds.max_longitude

\* A Locale with no field at its default and a center whose latitude and
\* longitude differ went through both conversions.
C36_Witness ==
  /\ ValidateDone(1, "round_trip")
  /\ th[1].args[1].center_lat = 34 /\ th[1].args[1].center_lng = -118
  /\ th[1].args[1].min_magnitude = 30
  /\ ~th[1].args[1].is_active /\ ~th[1].args[1].is_featured
  /\ th[1].args[1].sort_order = 1
  /\ th[1].args[1].created_at = ClockStart
  /\ th[1].result = th[1].args[1]

\* A raw record without any optional field was converted.
C36_WitnessDefaults ==
  /\ ValidateDone(1, "locale_from_dict")
  /\ DOMAIN th[1].args[1] = {"slug", "name", "display_name", "bounds", "center"}
  /\ th[1].result.min_magnitude = 25
  /\ th[1].result.is_active /\ th[1].result.is_featured
  /\ th[1].result.sort_order = 0

\* The refresh of the finished read of thread t fetched records that are
\* not the ones the store holds now, and a mutation has invalidated the
\* cache since that read began.
Overtaken(t) ==
  /\ th[t].pc = "done"
  /\ th[t].op = "get_all_locales"
  /\ th[t].refresh = "ok"
  /\ inval_pending = "write"
  /\ th[t].fetched # StreamDocs(store)

\* C33: an invalidation is never lost to an in-flight refresh: when a
\* mutation has succeeded (store write and invalidate_cache) while the
\* refresh of another thread that fetched the records of before the mutation
\* was in progress, and both have finished, the cache is not counted fresh:
\* a read that starts now refreshes again.
C33_InvalidationNotLost ==
  (Overtaken(1) /\ th[2].pc = "idle")
    => ~IsCacheValid(cache, cache_timestamp, now, ttl)

\* The create_locale call of thread t for a slug has returned success.
Created(t, slug) ==
  /\ th[t].pc = "done"
  /\ th[t].op = "create_locale"
  /\ th[t].slug = slug
  /\ th[t].ok

\* Of two create_locale calls in progress together for a slug that had no
\* record when either began, at most one returns success.
C34_AtMostOne ==
  \A slug \in WriteSlugs :
    ~(/\ Created(1, slug) /\ Created(2, slug)
      /\ ~Exists(th[1].pre_store, slug) /\ ~Exists(th[2].pre_store, slug))

\* The write of a create_locale call (line 236) lands on a slug that has no
\* record: it never replaces one.
C34_NoReplace ==
  \A t \in Threads :
    (th[t].pc = "m_write" /\ th'[t].pc = "m_inval")
      => ~Exists(store, th[t].slug)

\* C34: the refusal of create_locale to overwrite holds under concurrency:
\* of two concurrent calls for the same absent slug at most one returns
\* success, and the record stored by it is never replaced by the other.
C34_CreateRefusesOverwrite == []C34_AtMostOne /\ [][C34_NoReplace]_vars

\* The refresh of the read of thread t has failed (line 123).
RefreshFailed(t) ==
  /\ th[t].pc \in {"serve", "done"}
  /\ th[t].refresh = "failed"

\* C35: a failed refresh does not reset the staleness clock: after a refresh
\* attempt that fails the timestamp is the one of before the attempt and the
\* cache is still stale, so that the next read retries the refresh.
C35_FailedStaysStale ==
  \A t \in {1} :
    RefreshFailed(t)
      => /\ cache_timestamp = th[t].pre_ts
         /\ ~IsCacheValid(cache, cache_timestamp, now, ttl)

====
